---- MODULE Spec2Model ----
(***************************************************************************)
(* Registration / waitlist state machine and capacity accounting of the    *)
(* TerpSpark backend (app/services/registration_service.py and the         *)
(* repositories it drives).                                                *)
(*                                                                         *)
(* The database is one record `db` (events, registrations, waitlist rows). *)
(* Every service method is an operator from a database to a result record  *)
(* [db, status, detail, id], composed of the repository operators in the   *)
(* order the code calls them.  Spec runs the service methods one request   *)
(* at a time; SpecConcurrent runs them as interleaved request handlers     *)
(* whose steps are the database round trips between two commits.           *)
(***************************************************************************)
EXTENDS Integers, Sequences, FiniteSets, TLC

\* ---------------------------------------------------------------- bounds
NumUsers == 3
MaxCapacity == 3
MaxRegistrations == 3
MaxWaitlistIds == 2
MaxJoins == 5
MaxSeconds == 2
MaxTickets == 4
NumSuffixes == 2

\* ------------------------------------------------------ program constants
MAX_GUESTS == 2

None == 0

EventIds == {1}
UserIds == 1..NumUsers

VARIABLES db, ret, procs

vars == <<db, ret, procs>>

\* ----------------------------------------------------------------- emails
\* An address is its local part, its domain and whether it is written with
\* capital letters; str.lower() clears the capitals.
lower(email) == [email EXCEPT !.caps = FALSE]

UserEmail(u) == [local |-> u, domain |-> "umd.edu", caps |-> FALSE]

endswith_umd(email) == email.domain \in {"umd.edu", "terpmail.umd.edu"}

\* Guest addresses a request may carry: user 2's address, the same address in
\* capitals, an outsider's UMD and terpmail addresses and a non-UMD address.
GuestEmails ==
    {UserEmail(2),
     [local |-> 2, domain |-> "umd.edu", caps |-> TRUE],
     [local |-> 0, domain |-> "umd.edu", caps |-> FALSE],
     [local |-> 0, domain |-> "terpmail.umd.edu", caps |-> FALSE],
     [local |-> 0, domain |-> "gmail.com", caps |-> FALSE]}

GuestLists ==
    {<<>>} \cup {<<a>> : a \in GuestEmails}
           \cup {<<a, b>> : a \in GuestEmails, b \in GuestEmails}
           \cup {<<a, a, a>> : a \in GuestEmails}

\* ------------------------------------------------ schemas/registration.py
\* GuestInfo.validate_umd_email: the address lowered, when it ends with
\* @umd.edu.
validate_umd_email(email) == lower(email).domain = "umd.edu"

\* RegistrationCreate accepts at most two guests, each a valid GuestInfo.
RegistrationCreate_valid(guests) ==
    /\ Len(guests) <= MAX_GUESTS
    /\ \A i \in DOMAIN guests : validate_umd_email(guests[i])

RegistrationCreate_guests(guests) == [i \in DOMAIN guests |-> lower(guests[i])]

\* ------------------------------------------------------------ small helpers
Max(a, b) == IF a >= b THEN a ELSE b

MinOf(S) == CHOOSE x \in S : \A y \in S : x <= y

MaxOf(S) == CHOOSE x \in S : \A y \in S : x >= y

Result(d, status, detail, id) ==
    [db |-> d, status |-> status, detail |-> detail, id |-> id]

\* ------------------------------------------------------------ UserRepository
get_by_email(email) ==
    LET hits == {u \in UserIds : UserEmail(u) = lower(email)}
    IN  IF hits = {} THEN None ELSE MinOf(hits)

\* ---------------------------------------------------- RegistrationRepository
get_by_user_and_event_WrongStatus(d, user_id, event_id) ==
    LET hits == {i \in DOMAIN d.registrations :
                    /\ d.registrations[i].user_id = user_id
                    /\ d.registrations[i].event_id = event_id
                    /\ d.registrations[i].status = "cancelled"}
    IN  IF hits = {} THEN None ELSE CHOOSE i \in hits : \A j \in hits : i <= j

\* .first() of the CONFIRMED rows of (user, event); None when there is none.
get_by_user_and_event(d, user_id, event_id) ==
    LET hits == {i \in DOMAIN d.registrations :
                    /\ d.registrations[i].user_id = user_id
                    /\ d.registrations[i].event_id = event_id
                    /\ d.registrations[i].status = "confirmed"}
    IN  IF hits = {} THEN None ELSE MinOf(hits)

get_event_registrations(d, event_id, status) ==
    {i \in DOMAIN d.registrations :
        /\ d.registrations[i].event_id = event_id
        /\ d.registrations[i].status = status}

registration_create_Resurrect(d, user_id, event_id, guests) ==
    LET old == {i \in DOMAIN d.registrations :
                   /\ d.registrations[i].user_id = user_id
                   /\ d.registrations[i].event_id = event_id
                   /\ d.registrations[i].status = "cancelled"}
    IN  IF old = {}
        THEN [d EXCEPT !.registrations = Append(@,
                [user_id |-> user_id, event_id |-> event_id,
                 status |-> "confirmed", guests |-> guests,
                 check_in_status |-> "not_checked_in", cancelled_at |-> None])]
        ELSE [d EXCEPT !.registrations[MinOf(old)].status = "confirmed",
                       !.registrations[MinOf(old)].guests = guests]

registration_create(d, user_id, event_id, guests) ==
    [d EXCEPT !.registrations = Append(@,
        [user_id |-> user_id, event_id |-> event_id, status |-> "confirmed",
         guests |-> guests, check_in_status |-> "not_checked_in",
         cancelled_at |-> None])]

registration_cancel_NoStamp(d, registration_id) ==
    [d EXCEPT !.registrations[registration_id].status = "cancelled"]

registration_cancel(d, registration_id) ==
    [d EXCEPT !.registrations[registration_id].status = "cancelled",
              !.registrations[registration_id].cancelled_at = d.today]

\* -------------------------------------------------------- WaitlistRepository
\* The row a lookup returns when nothing matches (Python's None).
NoEntry == [id |-> None, user_id |-> None, event_id |-> None, position |-> None]

waitlist_get_by_id(d, waitlist_id) ==
    LET hits == {w \in d.waitlist : w.id = waitlist_id}
    IN  IF hits = {} THEN NoEntry ELSE CHOOSE w \in hits : TRUE

waitlist_get_by_user_and_event(d, user_id, event_id) ==
    {w \in d.waitlist : w.user_id = user_id /\ w.event_id = event_id}

get_next_position_AnyEvent(d, event_id) ==
    LET ps == {w.position : w \in d.waitlist}
    IN  (IF ps = {} THEN 0 ELSE MaxOf(ps)) + 1

\* func.max(position) of the event's rows, 0 when there is none, plus 1.
get_next_position(d, event_id) ==
    LET ps == {w.position : w \in {x \in d.waitlist : x.event_id = event_id}}
    IN  (IF ps = {} THEN 0 ELSE MaxOf(ps)) + 1

waitlist_create(d, user_id, event_id) ==
    [d EXCEPT !.waitlist = @ \cup {[id |-> d.waitlist_ids + 1,
                                    user_id |-> user_id,
                                    event_id |-> event_id,
                                    position |-> get_next_position(d, event_id)]},
              !.waitlist_ids = @ + 1]

remove_NoRenumber(d, entry) ==
    [d EXCEPT !.waitlist = {w \in d.waitlist : w.id # entry.id}]

remove_AnyEvent(d, entry) ==
    LET kept == {w \in d.waitlist : w.id # entry.id}
    IN  [d EXCEPT !.waitlist =
            {IF w.position > entry.position
                THEN [w EXCEPT !.position = @ - 1] ELSE w : w \in kept}]

\* DELETE of the row, then one bulk UPDATE of the later positions.
remove(d, entry) ==
    LET kept == {w \in d.waitlist : w.id # entry.id}
    IN  [d EXCEPT !.waitlist =
            {IF w.event_id = entry.event_id /\ w.position > entry.position
                THEN [w EXCEPT !.position = @ - 1] ELSE w : w \in kept}]

\* ORDER BY position .first(): the rows the query may return (one row unless
\* two rows share the lowest position); {NoEntry} for an empty waitlist.
get_first_in_line_Last(d, event_id) ==
    LET rows == {w \in d.waitlist : w.event_id = event_id}
    IN  IF rows = {} THEN {NoEntry}
        ELSE {w \in rows : \A x \in rows : w.position >= x.position}

\* ORDER BY position, first row: a row with the lowest position.
get_first_in_line(d, event_id) ==
    LET rows == {w \in d.waitlist : w.event_id = event_id}
    IN  IF rows = {} THEN {NoEntry}
        ELSE {w \in rows : \A x \in rows : w.position <= x.position}

\* ------------------------------------------------------------ EventRepository
set_registered_count(d, event_id, n) ==
    [d EXCEPT !.events[event_id].registered_count = n]

set_waitlist_count(d, event_id, n) ==
    [d EXCEPT !.events[event_id].waitlist_count = n]

publish(d, event_id) == [d EXCEPT !.events[event_id].status = "published"]

\* EventRepository.cancel
event_cancel(d, event_id) == [d EXCEPT !.events[event_id].status = "cancelled"]

update_NoProtection(d, event_id, kwargs) ==
    [d EXCEPT !.events[event_id] =
        [key \in DOMAIN @ |-> IF key \in DOMAIN kwargs THEN kwargs[key] ELSE @[key]]]

\* EventRepository.update: every keyword that names an attribute of the event
\* is set, except id, registered_count and waitlist_count; then commit.
update(d, event_id, kwargs) ==
    [d EXCEPT !.events[event_id] =
        [key \in DOMAIN @ |->
            IF /\ key \in DOMAIN kwargs
               /\ key \notin {"id", "registered_count", "waitlist_count"}
            THEN kwargs[key] ELSE @[key]]]

remaining_capacity_OffByOne(d, event_id) ==
    d.events[event_id].capacity - d.events[event_id].registered_count + 1

\* remaining_capacity = event.capacity - event.registered_count
remaining_capacity(d, event_id) ==
    d.events[event_id].capacity - d.events[event_id].registered_count

waitlist_decrement_Skipped(d, event_id) == d

\* event.waitlist_count -= 1, floored at 0, and saved.
waitlist_decrement(d, event_id) ==
    set_waitlist_count(d, event_id, Max(0, d.events[event_id].waitlist_count - 1))

\* ------------------------------------------- RegistrationService: promotion
promote_from_waitlist_StaleKept(d, event_id, waitlist_entry) ==
    IF waitlist_entry.id = None
    THEN Result(d, FALSE, "empty", None)
    ELSE IF event_id \notin DOMAIN d.events
    THEN Result(d, FALSE, "no event", None)
    ELSE IF get_by_user_and_event(d, waitlist_entry.user_id, event_id) # None
    THEN Result(d, FALSE, "stale", None)
    ELSE LET d1 == registration_create(d, waitlist_entry.user_id, event_id, <<>>)
             d2 == set_registered_count(d1, event_id,
                       d1.events[event_id].registered_count + 1)
             d3 == remove(d2, waitlist_entry)
             d4 == waitlist_decrement(d3, event_id)
         IN  Result(d4, TRUE, "promoted", Len(d1.registrations))

promote_from_waitlist_Drain(d, event_id, waitlist_entry) ==
    IF waitlist_entry.id = None
    THEN Result(d, FALSE, "empty", None)
    ELSE IF event_id \notin DOMAIN d.events
    THEN Result(d, FALSE, "no event", None)
    ELSE IF get_by_user_and_event(d, waitlist_entry.user_id, event_id) # None
    THEN LET d1 == remove(d, waitlist_entry)
             d2 == waitlist_decrement(d1, event_id)
         IN  Result(d2, FALSE, "stale", None)
    ELSE LET d1 == registration_create(d, waitlist_entry.user_id, event_id, <<>>)
             d2 == set_registered_count(d1, event_id,
                       d1.events[event_id].registered_count + 1)
             d3 == remove(d2, waitlist_entry)
             d4 == waitlist_decrement(d3, event_id)
             next == CHOOSE w \in get_first_in_line(d4, event_id) : TRUE
             d5 == registration_create(d4, next.user_id, event_id, <<>>)
             d6 == set_registered_count(d5, event_id,
                       d5.events[event_id].registered_count + 1)
             d7 == remove(d6, next)
             d8 == waitlist_decrement(d7, event_id)
         IN  IF next.id # None /\ remaining_capacity(d4, event_id) > 0
             THEN Result(d8, TRUE, "promoted", Len(d1.registrations))
             ELSE Result(d4, TRUE, "promoted", Len(d1.registrations))

\* promote_from_waitlist with waitlist_entry the row get_first_in_line gave.
\* id is the new registration's id, None when nobody was promoted.
promote_from_waitlist(d, event_id, waitlist_entry) ==
    IF waitlist_entry.id = None
    THEN Result(d, FALSE, "empty", None)
    ELSE IF event_id \notin DOMAIN d.events
    THEN Result(d, FALSE, "no event", None)
    ELSE IF get_by_user_and_event(d, waitlist_entry.user_id, event_id) # None
    THEN LET d1 == remove(d, waitlist_entry)
             d2 == waitlist_decrement(d1, event_id)
         IN  Result(d2, FALSE, "stale", None)
    ELSE LET d1 == registration_create(d, waitlist_entry.user_id, event_id, <<>>)
             d2 == set_registered_count(d1, event_id,
                       d1.events[event_id].registered_count + 1)
             d3 == remove(d2, waitlist_entry)
             d4 == waitlist_decrement(d3, event_id)
         IN  Result(d4, TRUE, "promoted", Len(d1.registrations))

\* ---------------------------------------- RegistrationService: registration
\* The guests of the request that fail the already-attending scan.
guest_conflicts(d, event_id, guests) ==
    {i \in DOMAIN guests :
        \/ /\ get_by_email(guests[i]) # None
           /\ get_by_user_and_event(d, get_by_email(guests[i]), event_id) # None
        \/ \E r \in get_event_registrations(d, event_id, "confirmed") :
              \E j \in DOMAIN d.registrations[r].guests :
                  lower(d.registrations[r].guests[j]) = lower(guests[i])}

create_registration_checks_CapacityFirst(d, user_id, event_id, guests) ==
    IF event_id \notin DOMAIN d.events
    THEN <<404, "Event not found">>
    ELSE IF d.events[event_id].status # "published"
    THEN <<400, "Event is not published">>
    ELSE IF d.events[event_id].date < d.today
    THEN <<400, "Cannot register for past events">>
    ELSE IF remaining_capacity(d, event_id) < 1 + Len(guests)
    THEN IF remaining_capacity(d, event_id) = 0
         THEN <<409, "Event is full. Please join the waitlist instead.">>
         ELSE <<409, "Insufficient capacity">>
    ELSE IF get_by_user_and_event(d, user_id, event_id) # None
    THEN <<409, "You are already registered for this event">>
    ELSE IF Len(guests) > MAX_GUESTS
    THEN <<422, "Maximum 2 guests allowed per registration">>
    ELSE IF \E i \in DOMAIN guests : ~endswith_umd(lower(guests[i]))
    THEN <<422, "Guest email must be a valid UMD email">>
    ELSE IF Cardinality({lower(guests[i]) : i \in DOMAIN guests}) # Len(guests)
    THEN <<422, "Duplicate guest emails are not allowed">>
    ELSE IF guest_conflicts(d, event_id, guests) # {}
    THEN <<409, "Guest is already registered for this event">>
    ELSE <<200, "ok">>

\* The validation sequence of create_registration: <<status, detail>> of the
\* first failing check, <<200, "ok">> when every check passes.
create_registration_checks(d, user_id, event_id, guests) ==
    IF event_id \notin DOMAIN d.events
    THEN <<404, "Event not found">>
    ELSE IF d.events[event_id].status # "published"
    THEN <<400, "Event is not published">>
    ELSE IF d.events[event_id].date < d.today
    THEN <<400, "Cannot register for past events">>
    ELSE IF get_by_user_and_event(d, user_id, event_id) # None
    THEN <<409, "You are already registered for this event">>
    ELSE IF Len(guests) > MAX_GUESTS
    THEN <<422, "Maximum 2 guests allowed per registration">>
    ELSE IF \E i \in DOMAIN guests : ~endswith_umd(lower(guests[i]))
    THEN <<422, "Guest email must be a valid UMD email">>
    ELSE IF Cardinality({lower(guests[i]) : i \in DOMAIN guests}) # Len(guests)
    THEN <<422, "Duplicate guest emails are not allowed">>
    ELSE IF guest_conflicts(d, event_id, guests) # {}
    THEN <<409, "Guest is already registered for this event">>
    ELSE LET total_attendees_needed == 1 + Len(guests)
             remaining == remaining_capacity(d, event_id)
         IN  IF remaining < total_attendees_needed
             THEN IF remaining = 0
                  THEN <<409, "Event is full. Please join the waitlist instead.">>
                  ELSE <<409, "Insufficient capacity">>
             ELSE <<200, "ok">>

\* The two numbers the insufficient-capacity message carries: the spots
\* remaining and the spots the request needs.
insufficient_capacity_detail(d, event_id, guests) ==
    <<remaining_capacity(d, event_id), 1 + Len(guests)>>

create_registration_Partial(d, user_id, event_id, guests) ==
    LET chk == create_registration_checks(d, user_id, event_id, guests)
        kept == IF chk[2] = "Insufficient capacity" THEN <<>> ELSE guests
    IN  IF chk[1] # 200 /\ chk[2] # "Insufficient capacity"
        THEN Result(d, chk[1], chk[2], None)
        ELSE LET d1 == registration_create(d, user_id, event_id, kept)
                 d2 == set_registered_count(d1, event_id,
                           d1.events[event_id].registered_count + 1 + Len(kept))
             IN  Result(d2, chk[1], chk[2], Len(d1.registrations))

create_registration(d, user_id, event_id, guests) ==
    LET chk == create_registration_checks(d, user_id, event_id, guests)
    IN  IF chk[1] # 200
        THEN Result(d, chk[1], chk[2], None)
        ELSE LET d1 == registration_create(d, user_id, event_id, guests)
                 d2 == set_registered_count(d1, event_id,
                           d1.events[event_id].registered_count + 1 + Len(guests))
             IN  Result(d2, 200, "ok", Len(d1.registrations))

\* ---------------------------------------- RegistrationService: cancellation
cancel_registration_checks_NoStatus(d, registration_id, user_id) ==
    IF registration_id \notin DOMAIN d.registrations
    THEN <<404, "Registration not found">>
    ELSE IF d.registrations[registration_id].user_id # user_id
    THEN <<403, "You can only cancel your own registrations">>
    ELSE <<200, "ok">>

cancel_registration_checks(d, registration_id, user_id) ==
    IF registration_id \notin DOMAIN d.registrations
    THEN <<404, "Registration not found">>
    ELSE IF d.registrations[registration_id].user_id # user_id
    THEN <<403, "You can only cancel your own registrations">>
    ELSE IF d.registrations[registration_id].status = "cancelled"
    THEN <<400, "Registration is already cancelled">>
    ELSE <<200, "ok">>

release_NoFloor(d, registration_id) ==
    LET registration == d.registrations[registration_id]
        total_attendees == 1 + Len(registration.guests)
    IN  set_registered_count(d, registration.event_id,
            d.events[registration.event_id].registered_count - total_attendees)

release_IgnoresGuests(d, registration_id) ==
    LET registration == d.registrations[registration_id]
    IN  set_registered_count(d, registration.event_id,
            Max(0, d.events[registration.event_id].registered_count - 1))

\* The seats the cancellation gives back to the event.
release(d, registration_id) ==
    LET registration == d.registrations[registration_id]
        total_attendees == 1 + Len(registration.guests)
    IN  set_registered_count(d, registration.event_id,
            Max(0, d.events[registration.event_id].registered_count
                   - total_attendees))

cancel_registration_NoPromotion(d, registration_id, user_id, head) ==
    LET chk == cancel_registration_checks(d, registration_id, user_id)
    IN  IF chk[1] # 200
        THEN Result(d, chk[1], chk[2], None)
        ELSE LET d1 == registration_cancel(d, registration_id)
                 d2 == release(d1, registration_id)
             IN  Result(d2, 200, "empty", registration_id)

\* head: the row get_first_in_line returns to the promotion attempt.
\* detail of a success is the promotion's outcome.
cancel_registration(d, registration_id, user_id, head) ==
    LET chk == cancel_registration_checks(d, registration_id, user_id)
    IN  IF chk[1] # 200
        THEN Result(d, chk[1], chk[2], None)
        ELSE LET d1 == registration_cancel(d, registration_id)
                 d2 == release(d1, registration_id)
                 pr == promote_from_waitlist(d2,
                           d.registrations[registration_id].event_id, head)
             IN  Result(pr.db, 200, pr.detail, registration_id)

\* cancel_registration when the cancellation e-mail goes out or fails (sent)
\* and audit_repo.create writes its record or raises (audited): a failed
\* e-mail is caught and printed; an exception of audit_repo.create leaves the
\* method after the cancellation and the release were committed.
cancel_registration_effects(d, registration_id, user_id, head, sent, audited) ==
    IF audited \/ cancel_registration_checks(d, registration_id, user_id)[1] # 200
    THEN cancel_registration(d, registration_id, user_id, head)
    ELSE Result(release(registration_cancel(d, registration_id), registration_id),
                500, "audit failed", registration_id)

\* ------------------------------------------------ RegistrationService: waitlist
join_waitlist_checks_NoRegisteredCheck(d, user_id, event_id) ==
    IF event_id \notin DOMAIN d.events
    THEN <<404, "Event not found">>
    ELSE IF d.events[event_id].status # "published"
    THEN <<400, "Event is not published">>
    ELSE IF waitlist_get_by_user_and_event(d, user_id, event_id) # {}
    THEN <<409, "You are already on the waitlist for this event">>
    ELSE IF d.events[event_id].registered_count < d.events[event_id].capacity
    THEN <<400, "Event is not full">>
    ELSE <<200, "ok">>

join_waitlist_checks_NoFullCheck(d, user_id, event_id) ==
    IF event_id \notin DOMAIN d.events
    THEN <<404, "Event not found">>
    ELSE IF d.events[event_id].status # "published"
    THEN <<400, "Event is not published">>
    ELSE IF get_by_user_and_event(d, user_id, event_id) # None
    THEN <<409, "You are already registered for this event">>
    ELSE IF waitlist_get_by_user_and_event(d, user_id, event_id) # {}
    THEN <<409, "You are already on the waitlist for this event">>
    ELSE <<200, "ok">>

join_waitlist_checks(d, user_id, event_id) ==
    IF event_id \notin DOMAIN d.events
    THEN <<404, "Event not found">>
    ELSE IF d.events[event_id].status # "published"
    THEN <<400, "Event is not published">>
    ELSE IF get_by_user_and_event(d, user_id, event_id) # None
    THEN <<409, "You are already registered for this event">>
    ELSE IF waitlist_get_by_user_and_event(d, user_id, event_id) # {}
    THEN <<409, "You are already on the waitlist for this event">>
    ELSE IF d.events[event_id].registered_count < d.events[event_id].capacity
    THEN <<400, "Event is not full">>
    ELSE <<200, "ok">>

join_waitlist(d, user_id, event_id) ==
    LET chk == join_waitlist_checks(d, user_id, event_id)
    IN  IF chk[1] # 200
        THEN Result(d, chk[1], chk[2], None)
        ELSE LET d1 == waitlist_create(d, user_id, event_id)
                 d2 == set_waitlist_count(d1, event_id,
                           d1.events[event_id].waitlist_count + 1)
             IN  Result(d2, 200, "ok", d1.waitlist_ids)

leave_waitlist_NoOwnerCheck(d, waitlist_id, user_id) ==
    LET waitlist_entry == waitlist_get_by_id(d, waitlist_id)
    IN  IF waitlist_entry.id = None
        THEN Result(d, 404, "Waitlist entry not found", None)
        ELSE LET d1 == remove(d, waitlist_entry)
                 d2 == waitlist_decrement(d1, waitlist_entry.event_id)
             IN  Result(d2, 200, "ok", waitlist_id)

leave_waitlist(d, waitlist_id, user_id) ==
    LET waitlist_entry == waitlist_get_by_id(d, waitlist_id)
    IN  IF waitlist_entry.id = None
        THEN Result(d, 404, "Waitlist entry not found", None)
        ELSE IF waitlist_entry.user_id # user_id
        THEN Result(d, 403, "You can only remove your own waitlist entries", None)
        ELSE LET d1 == remove(d, waitlist_entry)
                 d2 == waitlist_decrement(d1, waitlist_entry.event_id)
             IN  Result(d2, 200, "ok", waitlist_id)

\* ---------------------------------------------------------- OrganizerService
\* Who calls: the approved organizer who owns the events, another approved
\* organizer, or a student.
Organizers == {"owner", "other", "student"}

\* RegistrationRepository.check_in
check_in(d, registration_id) ==
    [d EXCEPT !.registrations[registration_id].check_in_status = "checked_in"]

\* _verify_organizer, the event lookup and _verify_event_ownership, with
\* which every method of the service starts.
verify(d, event_id, organizer) ==
    IF organizer = "student"
    THEN <<403, "Organizer role required">>
    ELSE IF event_id \notin DOMAIN d.events
    THEN <<404, "Event not found">>
    ELSE IF organizer # "owner"
    THEN <<403, "You don't have permission to manage this event">>
    ELSE <<200, "ok">>

update_event_NoCapacityCheck(d, event_id, organizer, capacity) ==
    LET chk == verify(d, event_id, organizer)
    IN  IF chk[1] # 200
        THEN Result(d, chk[1], chk[2], None)
        ELSE IF d.events[event_id].status = "cancelled"
        THEN Result(d, 400, "Cannot update a cancelled event", None)
        ELSE IF capacity = None
        THEN Result(d, 200, "ok", event_id)
        ELSE Result([d EXCEPT !.events[event_id].capacity = capacity],
                    200, "ok", event_id)

\* update_event with capacity the capacity the request sets, None when the
\* request sets other fields only.
update_event(d, event_id, organizer, capacity) ==
    LET chk == verify(d, event_id, organizer)
    IN  IF chk[1] # 200
        THEN Result(d, chk[1], chk[2], None)
        ELSE IF d.events[event_id].status = "cancelled"
        THEN Result(d, 400, "Cannot update a cancelled event", None)
        ELSE IF capacity = None
        THEN Result(d, 200, "ok", event_id)
        ELSE IF capacity < d.events[event_id].registered_count
        THEN Result(d, 400,
                    "Cannot reduce capacity below current registered count", None)
        ELSE Result([d EXCEPT !.events[event_id].capacity = capacity],
                    200, "ok", event_id)

cancel_event(d, event_id, organizer) ==
    LET chk == verify(d, event_id, organizer)
    IN  IF chk[1] # 200
        THEN Result(d, chk[1], chk[2], None)
        ELSE IF d.events[event_id].status = "cancelled"
        THEN Result(d, 400, "Event is already cancelled", None)
        ELSE Result(event_cancel(d, event_id), 200, "ok", event_id)

check_in_attendee_AnyStatus(d, event_id, registration_id, organizer) ==
    LET chk == verify(d, event_id, organizer)
    IN  IF chk[1] # 200
        THEN Result(d, chk[1], chk[2], None)
        ELSE IF registration_id \notin DOMAIN d.registrations
        THEN Result(d, 404, "Registration not found", None)
        ELSE IF d.registrations[registration_id].event_id # event_id
        THEN Result(d, 400, "Registration does not belong to this event", None)
        ELSE IF d.registrations[registration_id].check_in_status = "checked_in"
        THEN Result(d, 400, "Attendee is already checked in", None)
        ELSE Result(check_in(d, registration_id), 200, "ok", registration_id)

check_in_attendee(d, event_id, registration_id, organizer) ==
    LET chk == verify(d, event_id, organizer)
    IN  IF chk[1] # 200
        THEN Result(d, chk[1], chk[2], None)
        ELSE IF registration_id \notin DOMAIN d.registrations
        THEN Result(d, 404, "Registration not found", None)
        ELSE IF d.registrations[registration_id].event_id # event_id
        THEN Result(d, 400, "Registration does not belong to this event", None)
        ELSE IF d.registrations[registration_id].status # "confirmed"
        THEN Result(d, 400, "Cannot check-in a cancelled registration", None)
        ELSE IF d.registrations[registration_id].check_in_status = "checked_in"
        THEN Result(d, 400, "Attendee is already checked in", None)
        ELSE Result(check_in(d, registration_id), 200, "ok", registration_id)

\* --------------------------------- a registration request and its schema
\* create_registration takes a RegistrationCreate: the request body has gone
\* through the schema's validators before the service sees it.  A body the
\* schema refuses is answered 422 and never reaches the service.
register_for_event(d, user_id, event_id, guests) ==
    IF Len(guests) > MAX_GUESTS
    THEN Result(d, 422, "ensure this value has at most 2 items", None)
    ELSE IF \E i \in DOMAIN guests : ~validate_umd_email(guests[i])
    THEN Result(d, 422,
                "Guest email must be a valid UMD email address (@umd.edu)", None)
    ELSE create_registration(d, user_id, event_id,
                             RegistrationCreate_guests(guests))

\* ------------------------- RegistrationService: mail and audit outcomes
\* Each method with what its side effects did: sent is whether the e-mail
\* went out (a failure is caught and printed, so the method goes on either
\* way), audited whether audit_repo.create wrote its record or raised.  The
\* audit call comes after the repositories committed the method's writes and
\* is not inside a try: its exception leaves the method with those writes
\* in place.
create_registration_effects_MailRaises(d, user_id, event_id, guests, sent, audited) ==
    LET r == create_registration(d, user_id, event_id, guests)
    IN  IF r.status # 200 \/ (sent /\ audited) THEN r
        ELSE IF ~sent THEN Result(r.db, 500, "mail failed", r.id)
        ELSE Result(r.db, 500, "audit failed", r.id)

create_registration_effects(d, user_id, event_id, guests, sent, audited) ==
    LET r == create_registration(d, user_id, event_id, guests)
    IN  IF r.status # 200 \/ audited THEN r
        ELSE Result(r.db, 500, "audit failed", r.id)

join_waitlist_effects(d, user_id, event_id, sent, audited) ==
    LET r == join_waitlist(d, user_id, event_id)
    IN  IF r.status # 200 \/ audited THEN r
        ELSE Result(r.db, 500, "audit failed", r.id)

\* leave_waitlist sends no e-mail.
leave_waitlist_effects(d, waitlist_id, user_id, audited) ==
    LET r == leave_waitlist(d, waitlist_id, user_id)
    IN  IF r.status # 200 \/ audited THEN r
        ELSE Result(r.db, 500, "audit failed", r.id)

\* promote_from_waitlist writes an audit record only when it promotes; an
\* exception of that call reaches the caller in place of True.
promote_from_waitlist_effects(d, event_id, waitlist_entry, sent, audited) ==
    LET r == promote_from_waitlist(d, event_id, waitlist_entry)
    IN  IF r.detail # "promoted" \/ audited THEN r
        ELSE Result(r.db, FALSE, "audit failed", r.id)

\* ------------------------------------------------------------------- state
EventInputs == EventIds \cup {Cardinality(EventIds) + 1}

Procs == {1, 2}

\* A request handler: the method it runs, the line it is at, its arguments
\* and what it holds in local variables between two database round trips.
Idle == [op |-> "idle", pc |-> "idle", user_id |-> None, event_id |-> None,
         guests |-> <<>>, reg |-> None, seats |-> None, entry |-> NoEntry,
         n |-> None, status |-> None, detail |-> "", id |-> None,
         sent |-> TRUE, audited |-> TRUE, organizer |-> "", capacity |-> None]

Done(op, status, detail, id) ==
    [Idle EXCEPT !.op = op, !.pc = "done", !.status = status,
                 !.detail = detail, !.id = id]

NoRet == [op |-> "none", event_id |-> None, status |-> None, promoted |-> FALSE,
          detail |-> "", id |-> None]

\* What the last request returned: its HTTP status, its message and the id of
\* the row it acted on; event_id is the event the request was about.
Ret(op, event_id, r) ==
    [NoRet EXCEPT !.op = op, !.event_id = event_id, !.status = r.status,
                  !.detail = r.detail, !.id = r.id]

\* Events as EventRepository.create leaves them: pending, both counters 0;
\* an event is dated today or, like the tests' past event, yesterday.
Init ==
    /\ \E c \in [EventIds -> 1..MaxCapacity], dt \in [EventIds -> {0, 1}] :
          db = [events |-> [e \in EventIds |->
                               [capacity |-> c[e], registered_count |-> 0,
                                waitlist_count |-> 0, status |-> "pending",
                                date |-> dt[e]]],
                registrations |-> <<>>,
                waitlist |-> {},
                waitlist_ids |-> 0,
                today |-> 1]
    /\ ret = NoRet
    /\ procs = [p \in Procs |-> Idle]

WithinBounds(d) ==
    /\ Len(d.registrations) <= MaxRegistrations
    /\ d.waitlist_ids <= MaxWaitlistIds

\* ------------------------------------------- one request at a time (Spec)
\* A request is a step of the model when it is served: a rejected request
\* returns before its first write, so it is no step.  ret keeps what the
\* last served request returned.
Publish(e) ==
    /\ db.events[e].status = "pending"
    /\ db' = publish(db, e)
    /\ ret' = [NoRet EXCEPT !.op = "publish", !.event_id = e, !.status = 200]
    /\ UNCHANGED procs

\* The guest lists the service is called with: what the request schema makes
\* of the bodies it accepts.
RequestGuests ==
    {RegistrationCreate_guests(g) :
        g \in {x \in GuestLists : RegistrationCreate_valid(x)}}

Register(u, e, g) ==
    LET r == create_registration(db, u, e, g)
    IN  /\ r.status = 200
        /\ WithinBounds(r.db)
        /\ db' = r.db
        /\ ret' = Ret("register", e, r)
        /\ UNCHANGED procs

Cancel(u, rid) ==
    /\ rid \in DOMAIN db.registrations
    /\ \E head \in get_first_in_line(db, db.registrations[rid].event_id) :
          LET r == cancel_registration(db, rid, u, head)
          IN  /\ r.status = 200
              /\ WithinBounds(r.db)
              /\ db' = r.db
              /\ ret' = Ret("cancel", db.registrations[rid].event_id, r)
    /\ UNCHANGED procs

Join(u, e) ==
    LET r == join_waitlist(db, u, e)
    IN  /\ r.status = 200
        /\ WithinBounds(r.db)
        /\ db' = r.db
        /\ ret' = Ret("join", e, r)
        /\ UNCHANGED procs

Leave(u, wid) ==
    LET r == leave_waitlist(db, wid, u)
    IN  /\ r.status = 200
        /\ db' = r.db
        /\ ret' = Ret("leave", waitlist_get_by_id(db, wid).event_id, r)
        /\ UNCHANGED procs

\* promote_from_waitlist called on its own; promoted is the boolean it returns.
Promote(e) ==
    \E head \in get_first_in_line(db, e) :
        LET r == promote_from_waitlist(db, e, head)
        IN  /\ head.id # None
            /\ WithinBounds(r.db)
            /\ db' = r.db
            /\ ret' = [NoRet EXCEPT !.op = "promote", !.event_id = e,
                                    !.promoted = r.status,
                                    !.detail = r.detail, !.id = r.id]
            /\ UNCHANGED procs

Requests ==
    \/ \E e \in EventIds : Publish(e)
    \/ \E u \in UserIds, e \in EventInputs, g \in RequestGuests : Register(u, e, g)
    \/ \E u \in UserIds, rid \in 1..MaxRegistrations : Cancel(u, rid)
    \/ \E u \in UserIds, e \in EventInputs : Join(u, e)
    \/ \E u \in UserIds, wid \in 1..MaxWaitlistIds : Leave(u, wid)

Next ==
    \/ Requests
    \/ \E e \in EventIds : Promote(e)

\* Every service method, promote_from_waitlist included, one call at a time.
Spec == Init /\ [][Next]_vars

\* The requests the API serves: promotion only as part of a cancellation.
SpecRequests == Init /\ [][Requests]_vars

\* ------------------------- requests whose side effects may fail (SpecFaults)
\* A cancellation whose e-mail or audit record may fail.
CancelWithEffects(u, rid) ==
    /\ rid \in DOMAIN db.registrations
    /\ \E head \in get_first_in_line(db, db.registrations[rid].event_id),
          sent \in BOOLEAN, audited \in BOOLEAN :
          LET r == cancel_registration_effects(db, rid, u, head, sent, audited)
          IN  /\ r.status \in {200, 500}
              /\ WithinBounds(r.db)
              /\ db' = r.db
              /\ ret' = Ret("cancel", db.registrations[rid].event_id, r)
    /\ UNCHANGED procs

NextFaults ==
    \/ \E e \in EventIds : Publish(e)
    \/ \E u \in UserIds, e \in EventIds, g \in RequestGuests : Register(u, e, g)
    \/ \E u \in UserIds, e \in EventIds : Join(u, e)
    \/ \E u \in UserIds, rid \in 1..MaxRegistrations : CancelWithEffects(u, rid)

\* Registrations, waitlist joins and cancellations, one request at a time,
\* with the mail server and the audit table failing at will.
SpecFaults == Init /\ [][NextFaults]_vars


\* ------------------------------- interleaved request handlers (SpecConcurrent)
\* A handler's step is one database round trip: the reads of a transaction,
\* or the commit that ends it.  The session expires every loaded object at a
\* commit (sessionmaker's default expire_on_commit), so `event.x += k` after a
\* commit is a fresh read of x followed, at the next commit, by a write.

\* Users 1..r hold a registration without guests.
RECURSIVE Registered(_, _, _)
Registered(d, e, r) ==
    IF r = 0 THEN d
    ELSE create_registration(Registered(d, e, r - 1), r, e, <<>>).db

\* Users r+1..r+w have joined the waitlist, in that order.
RECURSIVE Waitlisted(_, _, _, _)
Waitlisted(d, e, r, w) ==
    IF w = 0 THEN d
    ELSE join_waitlist(Waitlisted(d, e, r, w - 1), r + w, e).db

Fresh(c) ==
    [events |-> [e \in EventIds |->
                    [capacity |-> c, registered_count |-> 0,
                     waitlist_count |-> 0, status |-> "pending", date |-> 1]],
     registrations |-> <<>>,
     waitlist |-> {},
     waitlist_ids |-> 0,
     today |-> 1]

\* The handlers start on a published event that earlier requests, served one
\* at a time, have partly or wholly filled; users queue only for a full event.
InitConcurrent ==
    /\ \E c \in 1..MaxCapacity, r \in 0..MaxCapacity, w \in 0..MaxWaitlistIds :
          /\ r <= c
          /\ r + w <= NumUsers
          /\ w > 0 => r = c
          /\ db = Waitlisted(Registered(publish(Fresh(c), 1), 1, r), 1, r, w)
    /\ ret = NoRet
    /\ procs = [p \in Procs |-> Idle]

\* SELECT ... FOR UPDATE holds the event's row until the handler's next commit.
Locked(e, p) ==
    \E q \in Procs \ {p} :
        procs[q].pc = "registration_create" /\ procs[q].event_id = e

Goto(p, label) == procs' = [procs EXCEPT ![p].pc = label]

\* create_registration up to its last check.
cr_check(p, u, e, g) ==
    /\ procs[p].pc = "idle"
    /\ ~Locked(e, p)
    /\ LET chk == create_registration_checks(db, u, e, g)
       IN  procs' = [procs EXCEPT ![p] =
              IF chk[1] # 200 THEN Done("register", chk[1], chk[2], None)
              ELSE [Idle EXCEPT !.op = "register", !.pc = "registration_create",
                                !.user_id = u, !.event_id = e, !.guests = g]]
    /\ UNCHANGED <<db, ret>>

\* registration_repo.create: INSERT and commit, which gives the row lock back.
cr_create(p) ==
    /\ procs[p].pc = "registration_create"
    /\ db' = registration_create(db, procs[p].user_id, procs[p].event_id,
                                 procs[p].guests)
    /\ procs' = [procs EXCEPT ![p].pc = "cr_reload",
                              ![p].reg = Len(db.registrations) + 1]
    /\ UNCHANGED ret

\* event.registered_count += total_attendees_needed
cr_reload(p) ==
    /\ procs[p].pc = "cr_reload"
    /\ procs' = [procs EXCEPT ![p].pc = "cr_update",
                    ![p].n = db.events[procs[p].event_id].registered_count
                             + 1 + Len(procs[p].guests)]
    /\ UNCHANGED <<db, ret>>

\* event_repo.update(event) and the rest of the method.
cr_update(p) ==
    /\ procs[p].pc = "cr_update"
    /\ ~Locked(procs[p].event_id, p)
    /\ db' = set_registered_count(db, procs[p].event_id, procs[p].n)
    /\ procs' = [procs EXCEPT ![p] = Done("register", 200, "ok", procs[p].reg)]
    /\ UNCHANGED ret

\* cancel_registration up to its last check.
k_check(p, u, rid) ==
    /\ procs[p].pc = "idle"
    /\ LET chk == cancel_registration_checks(db, rid, u)
       IN  procs' = [procs EXCEPT ![p] =
              IF chk[1] # 200 THEN Done("cancel", chk[1], chk[2], None)
              ELSE [Idle EXCEPT !.op = "cancel", !.pc = "registration_cancel",
                        !.user_id = u, !.reg = rid,
                        !.event_id = db.registrations[rid].event_id,
                        !.seats = 1 + Len(db.registrations[rid].guests)]]
    /\ UNCHANGED <<db, ret>>

\* registration_repo.cancel
k_cancel(p) ==
    /\ procs[p].pc = "registration_cancel"
    /\ db' = registration_cancel(db, procs[p].reg)
    /\ Goto(p, "k_read")
    /\ UNCHANGED ret

\* event_repo.get_by_id; event.registered_count -= total_attendees, floored.
k_read(p) ==
    /\ procs[p].pc = "k_read"
    /\ procs' = [procs EXCEPT ![p].pc = "k_release",
                    ![p].n = Max(0, db.events[procs[p].event_id].registered_count
                                    - procs[p].seats)]
    /\ UNCHANGED <<db, ret>>

\* event_repo.update(event); the promotion attempt follows.
k_release(p) ==
    /\ procs[p].pc = "k_release"
    /\ ~Locked(procs[p].event_id, p)
    /\ db' = set_registered_count(db, procs[p].event_id, procs[p].n)
    /\ Goto(p, "promote_from_waitlist")
    /\ UNCHANGED ret

\* promote_from_waitlist up to the re-validation of the head of the line.
p_read(p) ==
    /\ procs[p].pc = "promote_from_waitlist"
    /\ \E head \in get_first_in_line(db, procs[p].event_id) :
          procs' = [procs EXCEPT ![p] =
             IF head.id = None
             THEN Done(procs[p].op, 200, "empty", procs[p].reg)
             ELSE IF get_by_user_and_event(db, head.user_id, procs[p].event_id) # None
             THEN [@ EXCEPT !.pc = "remove", !.entry = head, !.detail = "stale"]
             ELSE [@ EXCEPT !.pc = "p_create", !.entry = head]]
    /\ UNCHANGED <<db, ret>>

\* registration_repo.create for the head of the line, without guests.
p_create(p) ==
    /\ procs[p].pc = "p_create"
    /\ db' = registration_create(db, procs[p].entry.user_id, procs[p].event_id, <<>>)
    /\ procs' = [procs EXCEPT ![p].pc = "p_reload",
                              ![p].id = Len(db.registrations) + 1]
    /\ UNCHANGED ret

\* event.registered_count += 1
p_reload(p) ==
    /\ procs[p].pc = "p_reload"
    /\ procs' = [procs EXCEPT ![p].pc = "p_update",
                    ![p].n = db.events[procs[p].event_id].registered_count + 1]
    /\ UNCHANGED <<db, ret>>

\* event_repo.update(event)
p_update(p) ==
    /\ procs[p].pc = "p_update"
    /\ ~Locked(procs[p].event_id, p)
    /\ db' = set_registered_count(db, procs[p].event_id, procs[p].n)
    /\ Goto(p, "p_position")
    /\ UNCHANGED ret

\* old_position = waitlist_entry.position: the expired row is read again, and
\* the read raises when the row is gone; the caller's except swallows it.
p_position(p) ==
    /\ procs[p].pc = "p_position"
    /\ LET row == waitlist_get_by_id(db, procs[p].entry.id)
       IN  procs' = [procs EXCEPT ![p] =
              IF row.id = None
              THEN Done(procs[p].op, 200, "promotion failed", procs[p].reg)
              ELSE [@ EXCEPT !.pc = "remove", !.entry = row,
                             !.detail = "promoted"]]
    /\ UNCHANGED <<db, ret>>

\* waitlist_repo.remove, first commit: DELETE of the entry.
remove_delete(p) ==
    /\ procs[p].pc = "remove"
    /\ db' = [db EXCEPT !.waitlist = {w \in @ : w.id # procs[p].entry.id}]
    /\ Goto(p, "renumber")
    /\ UNCHANGED ret

\* waitlist_repo.remove, second commit: the bulk UPDATE of later positions.
remove_renumber(p) ==
    /\ procs[p].pc = "renumber"
    /\ db' = [db EXCEPT !.waitlist =
                {IF w.event_id = procs[p].entry.event_id
                    /\ w.position > procs[p].entry.position
                 THEN [w EXCEPT !.position = @ - 1] ELSE w : w \in @}]
    /\ Goto(p, "wc_reload")
    /\ UNCHANGED ret

\* event.waitlist_count += 1 (join) or -= 1, floored (leave, promotion).
wc_reload(p) ==
    /\ procs[p].pc = "wc_reload"
    /\ LET wc == db.events[procs[p].event_id].waitlist_count
       IN  procs' = [procs EXCEPT ![p].pc = "wc_update",
                        ![p].n = IF procs[p].op = "join" THEN wc + 1
                                 ELSE Max(0, wc - 1)]
    /\ UNCHANGED <<db, ret>>

\* event_repo.update(event) and the rest of the method.
wc_update(p) ==
    /\ procs[p].pc = "wc_update"
    /\ ~Locked(procs[p].event_id, p)
    /\ db' = set_waitlist_count(db, procs[p].event_id, procs[p].n)
    /\ procs' = [procs EXCEPT ![p] =
          Done(procs[p].op, 200,
               IF procs[p].op = "cancel" THEN procs[p].detail ELSE "ok",
               IF procs[p].op = "cancel" THEN procs[p].reg ELSE procs[p].entry.id)]
    /\ UNCHANGED ret

\* join_waitlist up to get_next_position.
j_check(p, u, e) ==
    /\ procs[p].pc = "idle"
    /\ LET chk == join_waitlist_checks(db, u, e)
       IN  procs' = [procs EXCEPT ![p] =
              IF chk[1] # 200 THEN Done("join", chk[1], chk[2], None)
              ELSE [Idle EXCEPT !.op = "join", !.pc = "waitlist_create",
                        !.user_id = u, !.event_id = e,
                        !.n = get_next_position(db, e)]]
    /\ UNCHANGED <<db, ret>>

\* waitlist_repo.create: INSERT at the position read, and commit.
j_create(p) ==
    /\ procs[p].pc = "waitlist_create"
    /\ LET row == [id |-> db.waitlist_ids + 1, user_id |-> procs[p].user_id,
                   event_id |-> procs[p].event_id, position |-> procs[p].n]
       IN  /\ db' = [db EXCEPT !.waitlist = @ \cup {row}, !.waitlist_ids = @ + 1]
           /\ procs' = [procs EXCEPT ![p].pc = "wc_reload", ![p].entry = row]
    /\ UNCHANGED ret

\* leave_waitlist up to its last check.
l_check(p, u, wid) ==
    /\ procs[p].pc = "idle"
    /\ LET row == waitlist_get_by_id(db, wid)
       IN  procs' = [procs EXCEPT ![p] =
              IF row.id = None
              THEN Done("leave", 404, "Waitlist entry not found", None)
              ELSE IF row.user_id # u
              THEN Done("leave", 403, "You can only remove your own waitlist entries", None)
              ELSE [Idle EXCEPT !.op = "leave", !.pc = "remove", !.user_id = u,
                        !.event_id = row.event_id, !.entry = row]]
    /\ UNCHANGED <<db, ret>>

Start(p) ==
    \/ \E u \in UserIds, e \in EventIds, g \in RequestGuests : cr_check(p, u, e, g)
    \/ \E u \in UserIds, rid \in 1..MaxRegistrations : k_check(p, u, rid)
    \/ \E u \in UserIds, e \in EventIds : j_check(p, u, e)
    \/ \E u \in UserIds, wid \in 1..MaxWaitlistIds : l_check(p, u, wid)

Step(p) ==
    \/ cr_create(p) \/ cr_reload(p) \/ cr_update(p)
    \/ k_cancel(p) \/ k_read(p) \/ k_release(p)
    \/ p_read(p) \/ p_create(p) \/ p_reload(p) \/ p_update(p) \/ p_position(p)
    \/ remove_delete(p) \/ remove_renumber(p)
    \/ wc_reload(p) \/ wc_update(p)
    \/ j_create(p)

NextConcurrent == \E p \in Procs : Start(p) \/ Step(p)

\* Two request handlers, one request each, on a partly filled event.
SpecConcurrent == InitConcurrent /\ [][NextConcurrent]_vars


\* ------------------------------------------- one call on a given database
\* (SpecCalls).  Every call is a step, rejected or served: the handler keeps
\* the arguments it was called with next to what it returned.

\* The database after user 1 (with guests g, when r > 0) and users 2..r have
\* registered on a published event of capacity c, users r+1..r+w have joined
\* the waitlist, user 1 has cancelled (k), the organizer has cancelled the
\* event (x) and the calendar shows day t; requests the code rejects leave no
\* trace.  An event that was never published (pub = FALSE) keeps the state
\* EventRepository.create gave it.
Seed(c, pub, g, r, w, k, x, t) ==
    LET d0 == IF pub THEN publish(Fresh(c), 1) ELSE Fresh(c)
        d1 == IF r > 0 THEN create_registration(d0, 1, 1, g).db ELSE d0
        d2 == Registered(d1, 1, r)
        d3 == Waitlisted(d2, 1, r, w)
        d4 == IF k THEN cancel_registration(d3, 1, 1,
                            CHOOSE h \in get_first_in_line(d3, 1) : TRUE).db
              ELSE d3
        d5 == IF x /\ pub THEN event_cancel(d4, 1) ELSE d4
    IN  [d5 EXCEPT !.today = t]

SeedGuests == {g \in RequestGuests : Len(g) <= 1}

InitCalls ==
    /\ \E c \in 1..MaxCapacity, pub \in BOOLEAN, g \in SeedGuests,
          r \in 0..NumUsers, w \in 0..MaxWaitlistIds, k \in BOOLEAN,
          x \in BOOLEAN, t \in {1, 2} :
          /\ r + w <= NumUsers
          /\ db = Seed(c, pub, g, r, w, k, x, t)
    /\ ret = NoRet
    /\ procs = [p \in Procs |-> Idle]

AllIdle == \A q \in Procs : procs[q].pc = "idle"

Returned(op, r) == Done(op, r.status, r.detail, r.id)

call_create_registration(p, u, e, g) ==
    /\ AllIdle
    /\ LET r == create_registration(db, u, e, g)
           msg == IF r.detail = "Insufficient capacity"
                  THEN insufficient_capacity_detail(db, e, g)
                  ELSE <<None, None>>
       IN  /\ db' = r.db
           /\ ret' = Ret("register", e, r)
           /\ procs' = [procs EXCEPT ![p] =
                 [Returned("register", r) EXCEPT !.user_id = u, !.event_id = e,
                      !.guests = g, !.n = msg[1], !.seats = msg[2]]]

call_cancel_registration(p, u, rid) ==
    /\ AllIdle
    /\ \E head \in (IF rid \in DOMAIN db.registrations
                    THEN get_first_in_line(db, db.registrations[rid].event_id)
                    ELSE {NoEntry}) :
          LET r == cancel_registration(db, rid, u, head)
          IN  /\ db' = r.db
              /\ ret' = Ret("cancel",
                            IF rid \in DOMAIN db.registrations
                            THEN db.registrations[rid].event_id ELSE None, r)
              /\ procs' = [procs EXCEPT ![p] =
                    [Returned("cancel", r) EXCEPT !.user_id = u, !.reg = rid]]

call_join_waitlist(p, u, e) ==
    /\ AllIdle
    /\ LET r == join_waitlist(db, u, e)
       IN  /\ db' = r.db
           /\ ret' = Ret("join", e, r)
           /\ procs' = [procs EXCEPT ![p] =
                 [Returned("join", r) EXCEPT !.user_id = u, !.event_id = e]]

call_leave_waitlist(p, u, wid) ==
    /\ AllIdle
    /\ LET r == leave_waitlist(db, wid, u)
       IN  /\ db' = r.db
           /\ ret' = Ret("leave", waitlist_get_by_id(db, wid).event_id, r)
           /\ procs' = [procs EXCEPT ![p] =
                 [Returned("leave", r) EXCEPT !.user_id = u, !.entry =
                      [NoEntry EXCEPT !.id = wid]]]

NextCalls ==
    \E p \in {MinOf(Procs)} :
        \/ \E u \in UserIds, e \in EventInputs, g \in GuestLists :
              call_create_registration(p, u, e, g)
        \/ \E u \in UserIds, rid \in 1..(MaxRegistrations + 1) :
              call_cancel_registration(p, u, rid)
        \/ \E u \in UserIds, e \in EventInputs : call_join_waitlist(p, u, e)
        \/ \E u \in UserIds, wid \in 1..(MaxWaitlistIds + 1) :
              call_leave_waitlist(p, u, wid)

\* One service call, with any arguments, on a database earlier requests
\* built.
SpecCalls == InitCalls /\ [][NextCalls]_vars

\* ------------------------------------ the audit trail of a call (SpecAudit)
\* audit_repo.create: one more record, here its action.
audit_create(d, action) == [d EXCEPT !.audit_logs = Append(@, action)]

\* The methods with the audit records they write, audit_repo.create working.
create_registration_logged(d, user_id, event_id, guests) ==
    LET r == create_registration(d, user_id, event_id, guests)
    IN  IF r.status # 200 THEN r
        ELSE [r EXCEPT !.db = audit_create(r.db, "REGISTRATION_CREATED")]

\* The two early returns and the stale path come before the audit call.
promote_from_waitlist_logged(d, event_id, waitlist_entry) ==
    LET r == promote_from_waitlist(d, event_id, waitlist_entry)
    IN  IF r.detail # "promoted" THEN r
        ELSE [r EXCEPT !.db = audit_create(r.db, "WAITLIST_PROMOTED")]

cancel_registration_logged_PromotionFirst(d, registration_id, user_id, head) ==
    LET chk == cancel_registration_checks(d, registration_id, user_id)
    IN  IF chk[1] # 200
        THEN Result(d, chk[1], chk[2], None)
        ELSE LET d1 == registration_cancel(d, registration_id)
                 d2 == release(d1, registration_id)
                 pr == promote_from_waitlist_logged(d2,
                           d.registrations[registration_id].event_id, head)
             IN  Result(audit_create(pr.db, "REGISTRATION_CANCELLED"),
                        200, pr.detail, registration_id)

\* The cancellation is audited before the promotion is attempted.
cancel_registration_logged(d, registration_id, user_id, head) ==
    LET chk == cancel_registration_checks(d, registration_id, user_id)
    IN  IF chk[1] # 200
        THEN Result(d, chk[1], chk[2], None)
        ELSE LET d1 == registration_cancel(d, registration_id)
                 d2 == release(d1, registration_id)
                 d3 == audit_create(d2, "REGISTRATION_CANCELLED")
                 pr == promote_from_waitlist_logged(d3,
                           d.registrations[registration_id].event_id, head)
             IN  Result(pr.db, 200, pr.detail, registration_id)

join_waitlist_logged(d, user_id, event_id) ==
    LET r == join_waitlist(d, user_id, event_id)
    IN  IF r.status # 200 THEN r
        ELSE [r EXCEPT !.db = audit_create(r.db, "WAITLIST_JOINED")]

leave_waitlist_logged(d, waitlist_id, user_id) ==
    LET r == leave_waitlist(d, waitlist_id, user_id)
    IN  IF r.status # 200 THEN r
        ELSE [r EXCEPT !.db = audit_create(r.db, "WAITLIST_LEFT")]

\* A database earlier requests built, with an audit log that starts empty.
InitAudit ==
    /\ \E c \in 1..MaxCapacity, pub \in BOOLEAN, g \in SeedGuests,
          r \in 0..NumUsers, w \in 0..MaxWaitlistIds, k \in BOOLEAN,
          x \in BOOLEAN, t \in {1, 2} :
          /\ r + w <= NumUsers
          /\ db = Seed(c, pub, g, r, w, k, x, t) @@ [audit_logs |-> <<>>]
    /\ ret = NoRet
    /\ procs = [p \in Procs |-> Idle]

audit_create_registration(u, e, g) ==
    /\ ret.op = "none"
    /\ LET r == create_registration_logged(db, u, e, g)
       IN  db' = r.db /\ ret' = Ret("register", e, r)
    /\ UNCHANGED procs

audit_cancel_registration(u, rid) ==
    /\ ret.op = "none"
    /\ \E head \in (IF rid \in DOMAIN db.registrations
                    THEN get_first_in_line(db, db.registrations[rid].event_id)
                    ELSE {NoEntry}) :
          LET r == cancel_registration_logged(db, rid, u, head)
          IN  /\ db' = r.db
              /\ ret' = Ret("cancel",
                            IF rid \in DOMAIN db.registrations
                            THEN db.registrations[rid].event_id ELSE None, r)
    /\ UNCHANGED procs

audit_join_waitlist(u, e) ==
    /\ ret.op = "none"
    /\ LET r == join_waitlist_logged(db, u, e)
       IN  db' = r.db /\ ret' = Ret("join", e, r)
    /\ UNCHANGED procs

audit_leave_waitlist(u, wid) ==
    /\ ret.op = "none"
    /\ LET r == leave_waitlist_logged(db, wid, u)
       IN  db' = r.db /\ ret' = Ret("leave", waitlist_get_by_id(db, wid).event_id, r)
    /\ UNCHANGED procs

audit_promote_from_waitlist(e) ==
    /\ ret.op = "none"
    /\ \E head \in get_first_in_line(db, e) :
          LET r == promote_from_waitlist_logged(db, e, head)
          IN  /\ db' = r.db
              /\ ret' = [NoRet EXCEPT !.op = "promote", !.event_id = e,
                                      !.promoted = r.status,
                                      !.detail = r.detail, !.id = r.id]
    /\ UNCHANGED procs

NextAudit ==
    \/ \E u \in UserIds, e \in EventInputs, g \in GuestLists :
          audit_create_registration(u, e, g)
    \/ \E u \in UserIds, rid \in 1..(MaxRegistrations + 1) :
          audit_cancel_registration(u, rid)
    \/ \E u \in UserIds, e \in EventInputs : audit_join_waitlist(u, e)
    \/ \E u \in UserIds, wid \in 1..(MaxWaitlistIds + 1) :
          audit_leave_waitlist(u, wid)
    \/ \E e \in EventIds : audit_promote_from_waitlist(e)

\* One service call, with any arguments, and the audit records it wrote.
SpecAudit == InitAudit /\ [][NextAudit]_vars

\* ------------------------- counters that understate the rows (SpecFloors)
\* A database earlier requests built, whose counters lost some of their
\* updates (interleaved handlers overwrite each other's counter).
InitFloors ==
    /\ \E c \in 1..MaxCapacity, g \in SeedGuests, r \in 0..NumUsers,
          w \in 0..MaxWaitlistIds, k \in BOOLEAN, x \in BOOLEAN :
          /\ r + w <= NumUsers
          /\ LET d == Seed(c, TRUE, g, r, w, k, x, 1)
             IN  \E rc \in 0..d.events[1].registered_count,
                    wc \in 0..d.events[1].waitlist_count :
                    db = set_waitlist_count(set_registered_count(d, 1, rc), 1, wc)
    /\ ret = NoRet
    /\ procs = [p \in Procs |-> Idle]

floors_cancel_registration(u, rid) ==
    /\ ret.op = "none"
    /\ rid \in DOMAIN db.registrations
    /\ \E head \in get_first_in_line(db, db.registrations[rid].event_id) :
          LET r == cancel_registration(db, rid, u, head)
          IN  /\ r.status = 200
              /\ db' = r.db
              /\ ret' = Ret("cancel", db.registrations[rid].event_id, r)
    /\ UNCHANGED procs

floors_leave_waitlist(u, wid) ==
    /\ ret.op = "none"
    /\ LET r == leave_waitlist(db, wid, u)
       IN  /\ r.status = 200
           /\ db' = r.db
           /\ ret' = Ret("leave", waitlist_get_by_id(db, wid).event_id, r)
    /\ UNCHANGED procs

floors_promote_from_waitlist(e) ==
    /\ ret.op = "none"
    /\ \E head \in get_first_in_line(db, e) :
          LET r == promote_from_waitlist(db, e, head)
          IN  /\ head.id # None
              /\ db' = r.db
              /\ ret' = [NoRet EXCEPT !.op = "promote", !.event_id = e,
                                      !.promoted = r.status,
                                      !.detail = r.detail, !.id = r.id]
    /\ UNCHANGED procs

NextFloors ==
    \/ \E u \in UserIds, rid \in 1..MaxRegistrations : floors_cancel_registration(u, rid)
    \/ \E u \in UserIds, wid \in 1..MaxWaitlistIds : floors_leave_waitlist(u, wid)
    \/ \E e \in EventIds : floors_promote_from_waitlist(e)

\* One cancellation, leave or promotion on such a database.
SpecFloors == InitFloors /\ [][NextFloors]_vars

\* ------------------------------- keyword updates of an event (SpecUpdate)
\* The keywords a caller may pass: attributes of the event, protected or
\* not, and one name that is no attribute.
KwargKeys ==
    {"id", "registered_count", "waitlist_count", "capacity", "status", "location"}

\* update(event, **kwargs) with the keywords keys, numbers n and c and status st.
repo_update(e, keys, n, c, st) ==
    /\ ret.op = "none"
    /\ LET values == [id |-> n, registered_count |-> n, waitlist_count |-> n,
                      capacity |-> c, status |-> st, location |-> st]
           kwargs == [key \in keys |-> values[key]]
       IN  /\ db' = update(db, e, kwargs)
           /\ ret' = [NoRet EXCEPT !.op = "update", !.event_id = e,
                                   !.status = 200, !.id = e]
           /\ procs' = [procs EXCEPT ![MinOf(Procs)] =
                 [Idle EXCEPT !.op = "update", !.pc = "done", !.event_id = e,
                      !.n = n,
                      !.capacity = IF "capacity" \in keys THEN c ELSE None,
                      !.detail = IF keys \cap {"id", "registered_count",
                                               "waitlist_count"} # {}
                                 THEN "protected" ELSE ""]]

NextUpdate ==
    \E e \in EventIds, keys \in SUBSET KwargKeys, n \in 0..(MaxCapacity + 1),
       c \in 1..MaxCapacity, st \in {"published", "cancelled"} :
        repo_update(e, keys, n, c, st)

\* One EventRepository.update, with any keywords, on a database earlier
\* requests built.
SpecUpdate == InitCalls /\ [][NextUpdate]_vars

\* ----------------- one call whose side effects may fail (SpecEffects)
Outcome(op, r, sent, audited) ==
    [Returned(op, r) EXCEPT !.sent = sent, !.audited = audited]

effects_create_registration(p, u, e, g, sent, audited) ==
    /\ AllIdle
    /\ LET r == create_registration_effects(db, u, e, g, sent, audited)
       IN  /\ db' = r.db
           /\ ret' = Ret("register", e, r)
           /\ procs' = [procs EXCEPT ![p] =
                 [Outcome("register", r, sent, audited) EXCEPT
                      !.user_id = u, !.event_id = e, !.guests = g]]

effects_cancel_registration(p, u, rid, sent, audited) ==
    /\ AllIdle
    /\ \E head \in (IF rid \in DOMAIN db.registrations
                    THEN get_first_in_line(db, db.registrations[rid].event_id)
                    ELSE {NoEntry}) :
          LET r == cancel_registration_effects(db, rid, u, head, sent, audited)
          IN  /\ db' = r.db
              /\ ret' = Ret("cancel",
                            IF rid \in DOMAIN db.registrations
                            THEN db.registrations[rid].event_id ELSE None, r)
              /\ procs' = [procs EXCEPT ![p] =
                    [Outcome("cancel", r, sent, audited) EXCEPT
                         !.user_id = u, !.reg = rid]]

effects_join_waitlist(p, u, e, sent, audited) ==
    /\ AllIdle
    /\ LET r == join_waitlist_effects(db, u, e, sent, audited)
       IN  /\ db' = r.db
           /\ ret' = Ret("join", e, r)
           /\ procs' = [procs EXCEPT ![p] =
                 [Outcome("join", r, sent, audited) EXCEPT
                      !.user_id = u, !.event_id = e]]

effects_leave_waitlist(p, u, wid, audited) ==
    /\ AllIdle
    /\ LET r == leave_waitlist_effects(db, wid, u, audited)
       IN  /\ db' = r.db
           /\ ret' = Ret("leave", waitlist_get_by_id(db, wid).event_id, r)
           /\ procs' = [procs EXCEPT ![p] =
                 [Outcome("leave", r, TRUE, audited) EXCEPT
                      !.user_id = u, !.entry = [NoEntry EXCEPT !.id = wid]]]

\* promote_from_waitlist called on its own.
effects_promote_from_waitlist(p, e, sent, audited) ==
    /\ AllIdle
    /\ \E head \in get_first_in_line(db, e) :
          LET r == promote_from_waitlist_effects(db, e, head, sent, audited)
          IN  /\ db' = r.db
              /\ ret' = [NoRet EXCEPT !.op = "promote", !.event_id = e,
                                      !.promoted = r.status,
                                      !.detail = r.detail, !.id = r.id]
              /\ procs' = [procs EXCEPT ![p] =
                    [Idle EXCEPT !.op = "promote", !.pc = "done",
                         !.detail = r.detail, !.id = r.id, !.event_id = e,
                         !.entry = head, !.sent = sent, !.audited = audited]]

NextEffects ==
    \E p \in {MinOf(Procs)}, sent \in BOOLEAN, audited \in BOOLEAN :
        \/ \E u \in UserIds, e \in EventInputs, g \in RequestGuests :
              effects_create_registration(p, u, e, g, sent, audited)
        \/ \E u \in UserIds, rid \in 1..(MaxRegistrations + 1) :
              effects_cancel_registration(p, u, rid, sent, audited)
        \/ \E u \in UserIds, e \in EventInputs :
              effects_join_waitlist(p, u, e, sent, audited)
        \/ \E u \in UserIds, wid \in 1..(MaxWaitlistIds + 1) :
              effects_leave_waitlist(p, u, wid, audited)
        \/ \E e \in EventIds : effects_promote_from_waitlist(p, e, sent, audited)

\* One service call on a database earlier requests built, with the mail
\* server and the audit table failing at will.
SpecEffects == InitCalls /\ [][NextEffects]_vars

\* ------------------------------ one registration request (SpecBodies)
request_registration(p, u, e, g) ==
    /\ AllIdle
    /\ LET r == register_for_event(db, u, e, g)
       IN  /\ db' = r.db
           /\ ret' = Ret("request", e, r)
           /\ procs' = [procs EXCEPT ![p] =
                 [Returned("request", r) EXCEPT !.user_id = u, !.event_id = e,
                      !.guests = g]]

NextBodies ==
    \E p \in {MinOf(Procs)}, u \in UserIds, e \in EventInputs, g \in GuestLists :
        request_registration(p, u, e, g)

\* One registration request with any body, on a database earlier requests
\* built.
SpecBodies == InitCalls /\ [][NextBodies]_vars


\* ------------------------------------- two full events (SpecWaitlist)
WaitlistEvents == {1, 2}

\* A user who is no one's guest and never waits: the holder of the seats.
Holder == NumUsers + 1

\* Two published events of capacity 1, both taken by the holder, nobody
\* waiting yet.
TwoFullEvents ==
    LET event == [capacity |-> 1, registered_count |-> 0,
                  waitlist_count |-> 0, status |-> "published", date |-> 1]
        d0 == [events |-> <<event, event>>,
               registrations |-> <<>>,
               waitlist |-> {},
               waitlist_ids |-> 0,
               today |-> 1]
        d1 == create_registration(d0, Holder, 1, <<>>).db
    IN  create_registration(d1, Holder, 2, <<>>).db

InitWaitlist ==
    /\ db = TwoFullEvents
    /\ ret = NoRet
    /\ procs = [p \in Procs |-> Idle]

\* A served join_waitlist request.
JoinLine(u, e) ==
    LET r == join_waitlist(db, u, e)
    IN  /\ r.status = 200
        /\ r.db.waitlist_ids <= MaxJoins
        /\ db' = r.db
        /\ ret' = Ret("join", e, r)
        /\ procs' = [procs EXCEPT ![MinOf(Procs)] =
              [Returned("join", r) EXCEPT !.user_id = u, !.event_id = e]]

\* A leave_waitlist request, rejected or served.
LeaveLine(u, wid) ==
    LET r == leave_waitlist(db, wid, u)
    IN  /\ db' = r.db
        /\ ret' = Ret("leave", waitlist_get_by_id(db, wid).event_id, r)
        /\ procs' = [procs EXCEPT ![MinOf(Procs)] =
              [Returned("leave", r) EXCEPT !.user_id = u,
                   !.entry = [NoEntry EXCEPT !.id = wid]]]

NextWaitlist ==
    \/ \E u \in UserIds, e \in WaitlistEvents : JoinLine(u, e)
    \/ \E u \in UserIds, wid \in 1..(MaxJoins + 1) : LeaveLine(u, wid)

\* Users joining and leaving the waitlists of two full events.
SpecWaitlist == InitWaitlist /\ [][NextWaitlist]_vars

\* ------------------- interleaved removals from one waitlist (SpecRemovals)
\* Users 1..w wait, in that order, for event 1, whose seat the holder has.
InitRemovals ==
    /\ \E w \in 2..NumUsers : db = Waitlisted(TwoFullEvents, 1, 0, w)
    /\ ret = NoRet
    /\ procs = [p \in Procs |-> Idle]

\* Each handler serves one request: a waiting user leaves, or the holder
\* cancels a registration, which promotes the head of the line.
NextRemovals ==
    \E p \in Procs :
        \/ \E u \in UserIds, wid \in 1..NumUsers : l_check(p, u, wid)
        \/ \E rid \in 1..Cardinality(WaitlistEvents) : k_check(p, Holder, rid)
        \/ k_cancel(p) \/ k_read(p) \/ k_release(p)
        \/ p_read(p) \/ p_create(p) \/ p_reload(p) \/ p_update(p)
        \/ p_position(p)
        \/ remove_delete(p) \/ remove_renumber(p)
        \/ wc_reload(p) \/ wc_update(p)

SpecRemovals == InitRemovals /\ [][NextRemovals]_vars


\* ----------------------------- a line that is served and left (SpecLine)
\* promote_from_waitlist called on its own for an event of the two.
PromoteLine(e) ==
    \E head \in get_first_in_line(db, e) :
        LET r == promote_from_waitlist(db, e, head)
        IN  /\ head.id # None
            /\ db' = r.db
            /\ ret' = [NoRet EXCEPT !.op = "promote", !.event_id = e,
                                    !.promoted = r.status,
                                    !.detail = r.detail, !.id = r.id]
            /\ UNCHANGED procs

\* The holder cancels a registration, which promotes the head of the line.
CancelLine(rid) ==
    /\ rid \in DOMAIN db.registrations
    /\ \E head \in get_first_in_line(db, db.registrations[rid].event_id) :
          LET r == cancel_registration(db, rid, Holder, head)
          IN  /\ r.status = 200
              /\ db' = r.db
              /\ ret' = Ret("cancel", db.registrations[rid].event_id, r)
              /\ UNCHANGED procs

\* A join_waitlist request that is served.
JoinQueue(u, e) ==
    LET r == join_waitlist(db, u, e)
    IN  /\ r.status = 200
        /\ r.db.waitlist_ids <= MaxJoins
        /\ db' = r.db
        /\ ret' = Ret("join", e, r)
        /\ UNCHANGED procs

NextLine ==
    \/ \E u \in UserIds, e \in WaitlistEvents : JoinQueue(u, e)
    \/ \E u \in UserIds, wid \in 1..MaxJoins : Leave(u, wid)
    \/ \E e \in WaitlistEvents : PromoteLine(e)
    \/ \E rid \in 1..Cardinality(WaitlistEvents) : CancelLine(rid)

\* Users 1..w wait for event 1; one request at a time joins, leaves, promotes
\* or cancels.
SpecLine == InitRemovals /\ [][NextLine]_vars


\* ------------------------------------------------ ticket codes (SpecTickets)
\* An event id is a string: its first eight characters and the rest.  Two
\* events share the first eight characters, a third does not.
TicketEvents ==
    {[short |-> 1, rest |-> 1], [short |-> 1, rest |-> 2],
     [short |-> 2, rest |-> 1]}

\* uuid.uuid4().hex[:4]: one of finitely many strings, whichever comes.
Suffixes == 1..NumSuffixes

\* generate_ticket_code: "TKT-{timestamp}-{event_id[:8]}".
generate_ticket_code(timestamp, event_id) ==
    [timestamp |-> timestamp, event_short |-> event_id.short, suffix |-> None]

\* The ticket code create_registration and promote_from_waitlist hand to
\* registration_repo.create: the generated code, with the suffix appended
\* when a stored registration already has the generated code.
new_ticket_code(d, event_id, suffix) ==
    LET ticket_code == generate_ticket_code(d.now, event_id)
    IN  IF \E i \in DOMAIN d.registrations :
              d.registrations[i].ticket_code = ticket_code
        THEN [ticket_code EXCEPT !.suffix = suffix]
        ELSE ticket_code

\* registration_repo.create with that code: the INSERT fails with an
\* IntegrityError when the code is already stored (ticket_code is unique).
ticket_create(d, event_id, suffix) ==
    LET ticket_code == new_ticket_code(d, event_id, suffix)
    IN  IF \E i \in DOMAIN d.registrations :
              d.registrations[i].ticket_code = ticket_code
        THEN Result([d EXCEPT !.issued = ticket_code], 500, "IntegrityError", None)
        ELSE Result([d EXCEPT !.issued = ticket_code,
                              !.registrations = Append(@,
                                  [event_id |-> event_id,
                                   ticket_code |-> ticket_code])],
                    200, "ok", Len(d.registrations) + 1)

InitTickets ==
    /\ db = [registrations |-> <<>>, now |-> 1,
             issued |-> generate_ticket_code(None, [short |-> None])]
    /\ ret = NoRet
    /\ procs = [p \in Procs |-> Idle]

\* int(time.time()) has moved on by a second.
Tick ==
    /\ db.now < MaxSeconds
    /\ db' = [db EXCEPT !.now = @ + 1]
    /\ ret' = NoRet
    /\ UNCHANGED procs

\* A registration or a promotion gets its ticket code and is stored.
IssueTicket(e, x) ==
    /\ Len(db.registrations) < MaxTickets
    /\ LET r == ticket_create(db, e, x)
       IN  /\ db' = r.db
           /\ ret' = [NoRet EXCEPT !.op = "ticket", !.status = r.status,
                                   !.detail = r.detail, !.id = r.id]
    /\ UNCHANGED procs

NextTickets ==
    \/ Tick
    \/ \E e \in TicketEvents, x \in Suffixes : IssueTicket(e, x)

SpecTickets == InitTickets /\ [][NextTickets]_vars


\* ------------------------------- organizers and attendees (SpecOrganizer)
\* What a user has done on event 1 so far.
Histories ==
    {"none", "confirmed", "checked_in", "cancelled", "checked_in_cancelled"}

\* The database after users 1..u have, in turn, registered for event 1, been
\* checked in by its owner and cancelled, each as far as h says.
RECURSIVE Attended(_, _, _)
Attended(d, h, u) ==
    IF u = 0 THEN d
    ELSE LET d0 == Attended(d, h, u - 1)
             r == create_registration(d0, u, 1, <<>>)
             d1 == IF h[u] \in {"checked_in", "checked_in_cancelled"}
                   THEN check_in_attendee(r.db, 1, r.id, "owner").db ELSE r.db
             d2 == IF h[u] \in {"cancelled", "checked_in_cancelled"}
                   THEN cancel_registration(d1, r.id, u, NoEntry).db ELSE d1
         IN  IF h[u] = "none" THEN d0 ELSE d2

\* Two published events of capacity MaxCapacity; users have registered for
\* event 1, some were checked in, some cancelled; the owner has then set the
\* capacity of event 1 to c (refused when that is below the seats taken)
\* and may have cancelled the event (x).
InitOrganizer ==
    /\ \E h \in [UserIds -> Histories], c \in 1..MaxCapacity, x \in BOOLEAN :
          LET d0 == [events |-> [e \in WaitlistEvents |->
                                    [capacity |-> MaxCapacity,
                                     registered_count |-> 0,
                                     waitlist_count |-> 0,
                                     status |-> "published", date |-> 1]],
                     registrations |-> <<>>,
                     waitlist |-> {},
                     waitlist_ids |-> 0,
                     today |-> 1]
              d1 == update_event(Attended(d0, h, NumUsers), 1, "owner", c).db
          IN  db = IF x THEN cancel_event(d1, 1, "owner").db ELSE d1
    /\ ret = NoRet
    /\ procs = [p \in Procs |-> Idle]

\* A request to the organizer service, rejected or served: what was asked
\* is kept next to the answer.
Asked(op, r, organizer, e) ==
    [Returned(op, r) EXCEPT !.organizer = organizer, !.event_id = e]

UpdateEvent(e, organizer, capacity) ==
    /\ AllIdle
    /\ LET r == update_event(db, e, organizer, capacity)
       IN  /\ db' = r.db
           /\ ret' = Ret("update", e, r)
           /\ procs' = [procs EXCEPT ![MinOf(Procs)] =
                 [Asked("update", r, organizer, e) EXCEPT !.capacity = capacity]]

CancelEvent(e, organizer) ==
    /\ AllIdle
    /\ LET r == cancel_event(db, e, organizer)
       IN  /\ db' = r.db
           /\ ret' = Ret("cancel_event", e, r)
           /\ procs' = [procs EXCEPT ![MinOf(Procs)] =
                 Asked("cancel_event", r, organizer, e)]

CheckIn(e, rid, organizer) ==
    /\ AllIdle
    /\ LET r == check_in_attendee(db, e, rid, organizer)
       IN  /\ db' = r.db
           /\ ret' = Ret("check_in", e, r)
           /\ procs' = [procs EXCEPT ![MinOf(Procs)] =
                 [Asked("check_in", r, organizer, e) EXCEPT !.reg = rid]]

OrganizerEvents == 1..(Cardinality(WaitlistEvents) + 1)

Capacities == {None} \cup 1..MaxCapacity

NextOrganizer ==
    \/ \E p \in {MinOf(Procs)}, u \in UserIds, e \in WaitlistEvents,
          g \in SeedGuests : call_create_registration(p, u, e, g)
    \/ \E p \in {MinOf(Procs)}, u \in UserIds,
          rid \in 1..(2 * NumUsers) : call_cancel_registration(p, u, rid)
    \/ \E e \in OrganizerEvents, o \in Organizers, c \in Capacities :
          UpdateEvent(e, o, c)
    \/ \E e \in OrganizerEvents, o \in Organizers : CancelEvent(e, o)
    \/ \E e \in OrganizerEvents, rid \in 1..(NumUsers + 1),
          o \in Organizers : CheckIn(e, rid, o)

\* One request of an attendee or of an organizer on a database earlier
\* requests built.
SpecOrganizer == InitOrganizer /\ [][NextOrganizer]_vars


\* -------------------------------------------------------------- properties
Rows(e) == {w \in db.waitlist : w.event_id = e}

Confirmed(e) == get_event_registrations(db, e, "confirmed")

RECURSIVE SeatsOf(_, _, _)
SeatsOf(regs, e, k) ==
    IF k = 0 THEN 0
    ELSE SeatsOf(regs, e, k - 1)
         + (IF regs[k].event_id = e /\ regs[k].status = "confirmed"
            THEN 1 + Len(regs[k].guests) ELSE 0)

\* The seats the CONFIRMED registrations of e occupy, guests included.
ConfirmedSeats(e) == SeatsOf(db.registrations, e, Len(db.registrations))

\* The head of e's line is a user who already holds a CONFIRMED registration.
StaleHead(d, e) ==
    \E h \in get_first_in_line(d, e) :
        h.id # None /\ get_by_user_and_event(d, h.user_id, e) # None

\* C1: whatever registrations and cancellations (each with its promotion
\* attempt) have been served, registered_count is between 0 and capacity.
C1_CountWithinCapacity ==
    \A e \in EventIds :
        /\ db.events[e].registered_count >= 0
        /\ db.events[e].registered_count <= db.events[e].capacity

\* A registration has just filled the event again after a cancellation.
C1_Witness ==
    /\ ret.op = "register"
    /\ db.events[ret.event_id].registered_count = db.events[ret.event_id].capacity
    /\ \E i \in DOMAIN db.registrations : db.registrations[i].status = "cancelled"

\* C2: when both handlers were create_registration and both succeeded, the
\* seats they confirmed fit the capacity and registered_count does not
\* exceed it: two requests for the last seat never both succeed.
C2_LastSeatTakenOnce ==
    (\A p \in Procs : /\ procs[p].op = "register"
                      /\ procs[p].pc = "done"
                      /\ procs[p].status = 200)
    => \A e \in EventIds :
          /\ ConfirmedSeats(e) <= db.events[e].capacity
          /\ db.events[e].registered_count <= db.events[e].capacity

\* C3: a user holds at most one CONFIRMED registration for an event.
C3_AtMostOneConfirmed ==
    \A u \in UserIds, e \in EventIds :
        Cardinality({i \in Confirmed(e) : db.registrations[i].user_id = u}) <= 1

\* A user who cancelled has registered again for the same event.
C3_Witness ==
    /\ ret.op = "register"
    /\ \E i \in DOMAIN db.registrations :
          /\ db.registrations[i].status = "cancelled"
          /\ db.registrations[i].event_id = ret.event_id
          /\ db.registrations[i].user_id = db.registrations[ret.id].user_id

\* C4: registered_count is the number of seats of the CONFIRMED
\* registrations, one per attendee and one per guest.
C4_CountIsConfirmedSeats ==
    \A e \in EventIds : db.events[e].registered_count = ConfirmedSeats(e)

\* A registration with a guest has been cancelled and a CONFIRMED one remains.
C4_Witness ==
    /\ ret.op = "cancel"
    /\ Len(db.registrations[ret.id].guests) > 0
    /\ Confirmed(ret.event_id) # {}

\* C5: the positions of an event's waitlist entries are 1..waitlist_count,
\* each taken once.
C5_PositionsContiguous ==
    \A e \in EventIds :
        /\ {w.position : w \in Rows(e)} = 1..db.events[e].waitlist_count
        /\ \A v \in Rows(e), w \in Rows(e) : v.position = w.position => v = w

\* The first in line has left and the second entry has moved up.
C5_Witness ==
    /\ ret.op = "leave"
    /\ \E w \in Rows(ret.event_id) : w.id > ret.id /\ w.position = 1

\* C6: waitlist_count is the number of waitlist rows of the event.
C6_CountIsRows ==
    \A e \in EventIds : db.events[e].waitlist_count = Cardinality(Rows(e))

\* A cancellation's promotion attempt has dequeued a stale entry.
C6_Witness ==
    /\ ret.op = "cancel"
    /\ ret.detail = "stale"

\* C7: no user holding a CONFIRMED registration for an event is, by email,
\* a guest of another CONFIRMED registration for that event.
C7_NoPrimaryAlsoGuest ==
    \A e \in EventIds :
        \A i \in Confirmed(e), j \in Confirmed(e) :
            i # j =>
                \A k \in DOMAIN db.registrations[j].guests :
                    lower(db.registrations[j].guests[k])
                        # UserEmail(db.registrations[i].user_id)

\* C8: a promote_from_waitlist step that finds a stale head removes that
\* entry, lowers waitlist_count by one, creates no registration, leaves
\* registered_count alone and returns False.
C8_StaleHeadOnlyDequeued ==
    [][\A e \in EventIds :
          (ret'.op = "promote" /\ ret'.event_id = e /\ StaleHead(db, e)) =>
              /\ \A h \in get_first_in_line(db, e) :
                    \A w \in db'.waitlist : w.id # h.id
              /\ db'.events[e].waitlist_count = db.events[e].waitlist_count - 1
              /\ db'.registrations = db.registrations
              /\ db'.events[e].registered_count = db.events[e].registered_count
              /\ ret'.promoted = FALSE]_vars

\* promote_from_waitlist has just dequeued a stale head.
C8_Witness ==
    /\ ret.op = "promote"
    /\ ret.detail = "stale"

\* C9: a served cancellation on an event whose head of line holds no
\* CONFIRMED registration leaves that user with a new CONFIRMED registration
\* without guests, removes the entry, lowers waitlist_count by one and leaves
\* registered_count at the old count minus the freed seats plus one.
C9_CancelPromotesHead ==
    [][(/\ ret'.op = "cancel"
        /\ ~StaleHead(db, ret'.event_id)
        /\ get_first_in_line(db, ret'.event_id) # {NoEntry}) =>
          LET e == ret'.event_id
              freed == 1 + Len(db.registrations[ret'.id].guests)
              new == db'.registrations[Len(db'.registrations)]
          IN  /\ Len(db'.registrations) = Len(db.registrations) + 1
              /\ new.status = "confirmed"
              /\ new.event_id = e
              /\ new.guests = <<>>
              /\ \A h \in get_first_in_line(db, e) :
                    /\ new.user_id = h.user_id
                    /\ \A w \in db'.waitlist : w.id # h.id
              /\ db'.events[e].waitlist_count = db.events[e].waitlist_count - 1
              /\ db'.events[e].registered_count
                    = db.events[e].registered_count - freed + 1]_vars

\* Capacity 1, one holder, one waiter: the holder has cancelled and the
\* waiter holds the seat.
C9_Witness ==
    /\ ret.op = "cancel"
    /\ ret.detail = "promoted"
    /\ db.events[ret.event_id].capacity = 1
    /\ db.events[ret.event_id].registered_count = 1
    /\ db.events[ret.event_id].waitlist_count = 0

\* C10: when a cancellation has promoted the head of the line and the other
\* handler was a create_registration that succeeded, registered_count is at
\* most capacity.
C10_PromotionKeepsCapacity ==
    \A p \in Procs, q \in Procs :
        (/\ procs[p].op = "cancel" /\ procs[p].pc = "done"
         /\ procs[p].detail = "promoted"
         /\ procs[q].op = "register" /\ procs[q].pc = "done"
         /\ procs[q].status = 200)
        => \A e \in EventIds :
              db.events[e].registered_count <= db.events[e].capacity

\* C11: when a cancellation's promotion attempt and a create_registration
\* have both completed, whoever the registering user was (the head of the
\* line included), no user holds two CONFIRMED registrations for the event.
C11_PromotionAndRegisterOneConfirmed ==
    (\E p \in Procs, q \in Procs :
        /\ procs[p].op = "cancel" /\ procs[p].pc = "done"
        /\ procs[p].status = 200
        /\ procs[q].op = "register" /\ procs[q].pc = "done"
        /\ procs[q].status = 200)
    => \A u \in UserIds, e \in EventIds :
          Cardinality({i \in Confirmed(e) : db.registrations[i].user_id = u}) <= 1

\* C12: two join_waitlist handlers that both succeeded hold different
\* positions in the event's line.
C12_JoinsGetDistinctPositions ==
    \A p \in Procs, q \in Procs :
        (/\ p # q
         /\ procs[p].op = "join" /\ procs[p].pc = "done" /\ procs[p].status = 200
         /\ procs[q].op = "join" /\ procs[q].pc = "done" /\ procs[q].status = 200)
        => \A v \in db.waitlist, w \in db.waitlist :
              (v.id = procs[p].id /\ w.id = procs[q].id)
                  => v.position # w.position

\* C13: a served cancellation of a registration with g guests marks it
\* CANCELLED, stamps cancelled_at and takes 1 + g off registered_count (the
\* promoted user's seat, if the attempt promoted someone, is added after).
C13_CancelReleasesSeats ==
    [][ret'.op = "cancel" =>
          LET rid == ret'.id
              e == ret'.event_id
              g == Len(db.registrations[rid].guests)
              promoted == IF ret'.detail = "promoted" THEN 1 ELSE 0
          IN  /\ db.registrations[rid].status = "confirmed"
              /\ db'.registrations[rid].status = "cancelled"
              /\ db'.registrations[rid].cancelled_at = db.today
              /\ db'.registrations[rid].cancelled_at # None
              /\ db'.events[e].registered_count
                    = db.events[e].registered_count - (1 + g) + promoted]_vars

\* A registration with 2 guests on an event with registered_count 3 and an
\* empty waitlist has been cancelled: registered_count is 0.
C13_Witness ==
    /\ ret.op = "cancel"
    /\ ret.detail = "empty"
    /\ Len(db.registrations[ret.id].guests) = 2
    /\ db.registrations[ret.id].cancelled_at # None
    /\ db.events[ret.event_id].registered_count = 0

\* C14: no step turns a CANCELLED registration back into CONFIRMED or gives
\* a row to another user or event, and a served registration is a new row
\* with an id no earlier row has.
C14_StatusOneWay ==
    [][/\ \A i \in DOMAIN db.registrations :
             /\ i \in DOMAIN db'.registrations
             /\ db'.registrations[i].user_id = db.registrations[i].user_id
             /\ db'.registrations[i].event_id = db.registrations[i].event_id
             /\ db.registrations[i].status = "cancelled"
                   => db'.registrations[i].status = "cancelled"
       /\ ret'.op = "register" =>
             /\ ret'.id \notin DOMAIN db.registrations
             /\ ret'.id \in DOMAIN db'.registrations
             /\ db'.registrations[ret'.id].status = "confirmed"]_vars

\* A user has registered again after cancelling: the new row is CONFIRMED
\* under a new id and the old row is still CANCELLED.
C14_Witness ==
    /\ ret.op = "register"
    /\ ret.id = Len(db.registrations)
    /\ db.registrations[ret.id].status = "confirmed"
    /\ \E i \in 1..(ret.id - 1) :
          /\ db.registrations[i].status = "cancelled"
          /\ db.registrations[i].user_id = db.registrations[ret.id].user_id
          /\ db.registrations[i].event_id = db.registrations[ret.id].event_id

\* The failure conditions of a registration request, in the order the
\* specification lists them; each is stated on the database alone.
FailureConditions(d, u, e, g) ==
    LET known == e \in DOMAIN d.events
    IN  << ~known,
           known /\ d.events[e].status # "published",
           known /\ d.events[e].date < d.today,
           known /\ \E i \in DOMAIN d.registrations :
                       /\ d.registrations[i].user_id = u
                       /\ d.registrations[i].event_id = e
                       /\ d.registrations[i].status = "confirmed",
           Len(g) > 2,
           \E i \in DOMAIN g :
               lower(g[i]).domain \notin {"umd.edu", "terpmail.umd.edu"},
           \E i \in DOMAIN g, j \in DOMAIN g : i # j /\ lower(g[i]) = lower(g[j]),
           known /\ \E i \in DOMAIN g, r \in DOMAIN d.registrations :
                       /\ d.registrations[r].event_id = e
                       /\ d.registrations[r].status = "confirmed"
                       /\ \/ UserEmail(d.registrations[r].user_id) = lower(g[i])
                          \/ \E j \in DOMAIN d.registrations[r].guests :
                                lower(d.registrations[r].guests[j]) = lower(g[i]),
           known /\ d.events[e].capacity - d.events[e].registered_count
                       < 1 + Len(g) >>

\* The first condition that holds, 0 when none does.
FirstFailure(d, u, e, g) ==
    LET c == FailureConditions(d, u, e, g)
        holds == {k \in DOMAIN c : c[k]}
    IN  IF holds = {} THEN 0 ELSE MinOf(holds)

\* What the request reports for each condition.
Reported ==
    << {<<404, "Event not found">>},
       {<<400, "Event is not published">>},
       {<<400, "Cannot register for past events">>},
       {<<409, "You are already registered for this event">>},
       {<<422, "Maximum 2 guests allowed per registration">>},
       {<<422, "Guest email must be a valid UMD email">>},
       {<<422, "Duplicate guest emails are not allowed">>},
       {<<409, "Guest is already registered for this event">>},
       {<<409, "Event is full. Please join the waitlist instead.">>,
        <<409, "Insufficient capacity">>} >>

\* The handler p has just returned from a call of op.
Returns(p, op) ==
    /\ procs[p].pc = "idle"
    /\ procs'[p].pc = "done"
    /\ procs'[p].op = op

\* C15: a create_registration call reports the first failure condition that
\* holds, in the order event missing, not published, past, already
\* registered, too many guests, guest domain, duplicate guests, guest already
\* attending, capacity; it succeeds when none holds.
C15_FirstFailureReported ==
    [][\A p \in Procs :
          Returns(p, "register") =>
              LET k == FirstFailure(db, procs'[p].user_id, procs'[p].event_id,
                                    procs'[p].guests)
              IN  IF k = 0
                  THEN procs'[p].status = 200
                  ELSE <<procs'[p].status, procs'[p].detail>> \in Reported[k]]_vars

\* A request with three guests by a user who is already registered for a
\* full event was told it is already registered.
C15_Witness ==
    \E p \in Procs :
        /\ procs[p].op = "register"
        /\ procs[p].pc = "done"
        /\ procs[p].detail = "You are already registered for this event"
        /\ Len(procs[p].guests) = 3
        /\ db.events[procs[p].event_id].registered_count
              = db.events[procs[p].event_id].capacity

\* C16: a create_registration call that passes every earlier check but needs
\* more seats than remain is rejected with 409 and changes nothing; it is
\* told to join the waitlist when no seat remains, and otherwise given the
\* remaining and the required number of seats.
C16_NoPartialRegistration ==
    [][\A p \in Procs :
          (/\ Returns(p, "register")
           /\ FirstFailure(db, procs'[p].user_id, procs'[p].event_id,
                           procs'[p].guests) = 9) =>
              LET e == procs'[p].event_id
                  remaining == db.events[e].capacity - db.events[e].registered_count
                  needed == 1 + Len(procs'[p].guests)
              IN  /\ procs'[p].status = 409
                  /\ db' = db
                  /\ IF remaining = 0
                     THEN procs'[p].detail
                             = "Event is full. Please join the waitlist instead."
                     ELSE /\ procs'[p].detail = "Insufficient capacity"
                          /\ procs'[p].n = remaining
                          /\ procs'[p].seats = needed]_vars

\* One seat remains and a request with one guest was rejected: 1 remaining,
\* 2 needed.
C16_Witness ==
    \E p \in Procs :
        /\ procs[p].op = "register"
        /\ procs[p].pc = "done"
        /\ procs[p].status = 409
        /\ procs[p].detail = "Insufficient capacity"
        /\ procs[p].n = 1
        /\ procs[p].seats = 2
        /\ Len(procs[p].guests) = 1

\* C17: a cancel_registration call fails with 404 for an unknown id, 403
\* for a registration of another user and 400 for a registration already
\* CANCELLED; a failed call leaves registrations, counts and waitlist as
\* they were.
C17_CancelRejections ==
    [][\A p \in Procs :
          Returns(p, "cancel") =>
              LET rid == procs'[p].reg
                  u == procs'[p].user_id
              IN  /\ rid \notin DOMAIN db.registrations
                        => procs'[p].status = 404
                  /\ (/\ rid \in DOMAIN db.registrations
                      /\ db.registrations[rid].user_id # u)
                        => procs'[p].status = 403
                  /\ (/\ rid \in DOMAIN db.registrations
                      /\ db.registrations[rid].user_id = u
                      /\ db.registrations[rid].status = "cancelled")
                        => procs'[p].status = 400
                  /\ procs'[p].status # 200 => db' = db]_vars

\* The owner has tried to cancel a registration a second time while users
\* wait in line.
C17_Witness ==
    \E p \in Procs :
        /\ procs[p].op = "cancel"
        /\ procs[p].pc = "done"
        /\ procs[p].status = 400
        /\ db.registrations[procs[p].reg].status = "cancelled"
        /\ Rows(db.registrations[procs[p].reg].event_id) # {}

\* C20: a join_waitlist call succeeds exactly when the event exists, is
\* published and full and the user has no CONFIRMED registration and no
\* waitlist entry for it; it fails with 404 for a missing event, 400 for an
\* unpublished or not full one, 409 for a user registered or queued, and a
\* failed call leaves the waitlist and waitlist_count as they were.
C20_JoinPreconditions ==
    [][\A p \in Procs :
          Returns(p, "join") =>
              LET e == procs'[p].event_id
                  u == procs'[p].user_id
                  known == e \in DOMAIN db.events
                  published == known /\ db.events[e].status = "published"
                  full == known /\ db.events[e].registered_count
                                      >= db.events[e].capacity
                  registered == \E i \in DOMAIN db.registrations :
                                    /\ db.registrations[i].user_id = u
                                    /\ db.registrations[i].event_id = e
                                    /\ db.registrations[i].status = "confirmed"
                  queued == \E w \in db.waitlist :
                                w.user_id = u /\ w.event_id = e
                  st == procs'[p].status
              IN  /\ st = 200 <=> (/\ known /\ published /\ full
                                   /\ ~registered /\ ~queued)
                  /\ st \in {200, 400, 404, 409}
                  /\ st = 404 <=> ~known
                  /\ st = 400 => (~published \/ ~full)
                  /\ st = 409 => (registered \/ queued)
                  /\ st # 200 => /\ db'.waitlist = db.waitlist
                                 /\ db'.events = db.events]_vars

\* A user was refused a place in the line of an event that has seats left.
C20_Witness ==
    \E p \in Procs :
        /\ procs[p].op = "join"
        /\ procs[p].pc = "done"
        /\ procs[p].status = 400
        /\ procs[p].detail = "Event is not full"
        /\ db.events[procs[p].event_id].status = "published"
        /\ db.events[procs[p].event_id].registered_count
              < db.events[procs[p].event_id].capacity

\* C18: a cancel_registration call that has cancelled the registration
\* returns normally and has made its one promotion attempt, whether or not
\* the e-mail went out and the audit record was written: when users waited,
\* the head of the line has left the waitlist and waitlist_count is one lower.
C18_CancelAlwaysAttemptsPromotion ==
    [][(/\ ret'.op = "cancel"
        /\ db.registrations[ret'.id].status = "confirmed"
        /\ db'.registrations[ret'.id].status = "cancelled") =>
          LET e == ret'.event_id
          IN  /\ ret'.status = 200
              /\ get_first_in_line(db, e) # {NoEntry} =>
                    /\ \A h \in get_first_in_line(db, e) :
                          \A w \in db'.waitlist : w.id # h.id
                    /\ db'.events[e].waitlist_count
                          = db.events[e].waitlist_count - 1]_vars

\* C19: one promotion attempt, on its own or inside a cancellation, creates
\* at most one registration and removes at most one waitlist entry; after a
\* cancellation that freed k > 1 seats with users waiting and a promotable
\* head, k - 1 of the freed seats are still free and every other waiter is
\* still queued.
C19_OnePromotionPerCall ==
    [][ret'.op \in {"cancel", "promote"} =>
          LET e == ret'.event_id
              gone == {w \in db.waitlist : \A v \in db'.waitlist : v.id # w.id}
              k == 1 + Len(db.registrations[ret'.id].guests)
          IN  /\ Len(db'.registrations) <= Len(db.registrations) + 1
              /\ Cardinality(gone) <= 1
              /\ (/\ ret'.op = "cancel"
                  /\ k > 1
                  /\ Rows(e) # {}
                  /\ ~StaleHead(db, e)) =>
                    /\ db'.events[e].registered_count
                          = db.events[e].registered_count - k + 1
                    /\ Cardinality(gone) = 1
                    /\ gone \subseteq get_first_in_line(db, e)
                    /\ Cardinality({w \in db'.waitlist : w.event_id = e})
                          = Cardinality(Rows(e)) - 1]_vars

\* A registration with a guest was cancelled while two users waited: the
\* head was promoted, a seat is free and a user still waits.
C19_Witness ==
    /\ ret.op = "cancel"
    /\ ret.detail = "promoted"
    /\ Len(db.registrations[ret.id].guests) >= 1
    /\ Rows(ret.event_id) # {}
    /\ db.events[ret.event_id].registered_count
          < db.events[ret.event_id].capacity

\* C21: a served join_waitlist adds one entry whose position is one more
\* than the highest position of the event's entries (1 on an empty
\* waitlist), adds 1 to the event's waitlist_count and leaves every earlier
\* entry, of this and of every other event, as it was: joins on an empty
\* waitlist with nobody leaving get positions 1, 2, 3.
C21_JoinAppends ==
    [][(ret'.op = "join" /\ ret'.status = 200) =>
          LET e == ret'.event_id
              old == {w \in db.waitlist : w.event_id = e}
              new == db'.waitlist \ db.waitlist
          IN  /\ db.waitlist \subseteq db'.waitlist
              /\ Cardinality(new) = 1
              /\ \A n \in new :
                    /\ n.id = ret'.id
                    /\ n.event_id = e
                    /\ n.user_id = procs'[MinOf(Procs)].user_id
                    /\ old = {} => n.position = 1
                    /\ old # {} => \E w \in old : n.position = w.position + 1
                    /\ \A w \in old : w.position < n.position
                    /\ n.position = Cardinality(old) + 1
              /\ db'.events[e].waitlist_count = db.events[e].waitlist_count + 1
              /\ \A f \in DOMAIN db.events \ {e} : db'.events[f] = db.events[f]]_vars

\* The third user in a row has joined the waitlist of event 2 while a user
\* waits for event 1: the positions on event 2 are 1, 2, 3 in joining order.
C21_Witness ==
    /\ ret.op = "join"
    /\ ret.status = 200
    /\ ret.event_id = 2
    /\ \E w \in db.waitlist : w.event_id = 1
    /\ \E a, b, c \in db.waitlist :
          /\ a.event_id = 2 /\ b.event_id = 2 /\ c.event_id = 2
          /\ a.id < b.id /\ b.id < c.id /\ c.id = ret.id
          /\ a.position = 1 /\ b.position = 2 /\ c.position = 3

\* C22: a served leave_waitlist of the entry at position p deletes that entry
\* and no other, takes 1 off the event's waitlist_count, lowers by 1 the
\* position of each entry of the event behind p and leaves the entries
\* ahead of p and the entries and the counter of every other event as they
\* were.
C22_LeaveRenumbers ==
    [][(ret'.op = "leave" /\ ret'.status = 200) =>
          LET gone == waitlist_get_by_id(db, ret'.id)
              e == gone.event_id
              p == gone.position
          IN  /\ gone \in db.waitlist
              /\ \A w \in db'.waitlist : w.id # gone.id
              /\ \A w \in db.waitlist \ {gone} :
                    \E v \in db'.waitlist :
                        /\ v.id = w.id
                        /\ v.user_id = w.user_id
                        /\ v.event_id = w.event_id
                        /\ v.position = IF w.event_id = e /\ w.position > p
                                        THEN w.position - 1 ELSE w.position
              /\ Cardinality(db'.waitlist) = Cardinality(db.waitlist) - 1
              /\ db'.events[e].waitlist_count = db.events[e].waitlist_count - 1
              /\ \A f \in DOMAIN db.events \ {e} : db'.events[f] = db.events[f]]_vars

\* Of three users waiting for event 1 the first has left: the two behind hold
\* positions 1 and 2 in their joining order, and an entry of event 2 keeps a
\* position higher than the one that was given up.
C22_Witness ==
    /\ ret.op = "leave"
    /\ ret.status = 200
    /\ ret.event_id = 1
    /\ \E a, b \in db.waitlist :
          /\ a.event_id = 1 /\ b.event_id = 1
          /\ ret.id < a.id /\ a.id < b.id
          /\ a.position = 1 /\ b.position = 2
    /\ Cardinality({w \in db.waitlist : w.event_id = 1}) = 2
    /\ \E w \in db.waitlist : w.event_id = 2 /\ w.position = 2

\* C23: leave_waitlist answers 404 for an entry id no row has and 403 for an
\* entry of another user, and in both cases the waitlist rows, their
\* positions and the events' counters stay as they were.
C23_LeaveRejections ==
    [][ret'.op = "leave" =>
          LET wid == procs'[MinOf(Procs)].entry.id
              u == procs'[MinOf(Procs)].user_id
              hits == {w \in db.waitlist : w.id = wid}
          IN  /\ hits = {} => ret'.status = 404 /\ db' = db
              /\ (\E w \in hits : w.user_id # u) => ret'.status = 403 /\ db' = db
              /\ ret'.status \in {403, 404} => db' = db
              /\ ret'.status = 200 => \E w \in hits : w.user_id = u]_vars

\* A user asked to remove another user's entry and was refused; the entry is
\* still queued.
C23_Witness ==
    /\ ret.op = "leave"
    /\ ret.status = 403
    /\ \E w \in db.waitlist :
          /\ w.id = procs[MinOf(Procs)].entry.id
          /\ w.user_id # procs[MinOf(Procs)].user_id

\* What each service call does when it goes through: the call passes its
\* checks, answers 200 (True for a promotion) and its rows and counters are
\* written.
GoesThrough ==
    LET P == procs'[MinOf(Procs)]
        e == ret'.event_id
    IN  /\ (/\ P.op = "register"
            /\ create_registration_checks(db, P.user_id, P.event_id, P.guests)[1]
                  = 200) =>
              /\ ret'.status = 200
              /\ Len(db'.registrations) = Len(db.registrations) + 1
              /\ db'.registrations[ret'.id].user_id = P.user_id
              /\ db'.registrations[ret'.id].guests = P.guests
              /\ db'.registrations[ret'.id].status = "confirmed"
              /\ db'.events[e].registered_count
                    = db.events[e].registered_count + 1 + Len(P.guests)
        /\ (/\ P.op = "cancel"
            /\ cancel_registration_checks(db, P.reg, P.user_id)[1] = 200) =>
              /\ ret'.status = 200
              /\ db'.registrations[P.reg].status = "cancelled"
              /\ \A h \in get_first_in_line(db, e) :
                    \A w \in db'.waitlist : w.id # h.id
              /\ db'.events[e].registered_count
                    = db.events[e].registered_count
                      - (1 + Len(db.registrations[P.reg].guests))
                      + (Len(db'.registrations) - Len(db.registrations))
        /\ (/\ P.op = "join"
            /\ join_waitlist_checks(db, P.user_id, P.event_id)[1] = 200) =>
              /\ ret'.status = 200
              /\ \E w \in db'.waitlist \ db.waitlist :
                    w.id = ret'.id /\ w.user_id = P.user_id /\ w.event_id = e
              /\ db'.events[e].waitlist_count = db.events[e].waitlist_count + 1
        /\ (/\ P.op = "promote"
            /\ P.entry.id # None
            /\ get_by_user_and_event(db, P.entry.user_id, e) = None) =>
              /\ ret'.promoted
              /\ get_by_user_and_event(db', P.entry.user_id, e) # None
              /\ \A w \in db'.waitlist : w.id # P.entry.id
              /\ db'.events[e].registered_count
                    = db.events[e].registered_count + 1
              /\ db'.events[e].waitlist_count
                    = db.events[e].waitlist_count - 1

\* C24: when the e-mail of create_registration, cancel_registration,
\* join_waitlist or promote_from_waitlist cannot be sent, the call still
\* answers success and the registration, the cancellation, the waitlist
\* entry and the counters are written as when the e-mail goes out.
C24_MailFailureHarmless ==
    [][(/\ ~procs'[MinOf(Procs)].sent
        /\ procs'[MinOf(Procs)].audited) => GoesThrough]_vars

\* A cancellation whose e-mails could not be sent has cancelled the
\* registration and promoted the head of the line.
C24_Witness ==
    /\ procs[MinOf(Procs)].op = "cancel"
    /\ ~procs[MinOf(Procs)].sent
    /\ procs[MinOf(Procs)].audited
    /\ ret.status = 200
    /\ ret.detail = "promoted"
    /\ db.registrations[procs[MinOf(Procs)].reg].status = "cancelled"

\* C25: when the audit record of a core operation cannot be written, the
\* failure stays inside the operation: the call still answers success and
\* its remaining steps run, for a cancellation the promotion of the head of
\* the line.
C25_AuditFailureSwallowed ==
    [][~procs'[MinOf(Procs)].audited =>
          /\ GoesThrough
          /\ (/\ procs'[MinOf(Procs)].op = "leave"
              /\ \E w \in db.waitlist :
                    /\ w.id = procs'[MinOf(Procs)].entry.id
                    /\ w.user_id = procs'[MinOf(Procs)].user_id) =>
                ret'.status = 200]_vars

\* C29: create_registration, cancel_registration, join_waitlist and
\* leave_waitlist change nothing when they return an error: the
\* registrations, the waitlist entries and both counters of every event are
\* what they were before the call.
C29_ErrorMeansNoChange ==
    [][(/\ ret'.op \in {"register", "cancel", "join", "leave"}
        /\ ret'.status # 200) =>
          /\ db'.registrations = db.registrations
          /\ db'.waitlist = db.waitlist
          /\ \A e \in DOMAIN db.events :
                /\ db'.events[e].registered_count = db.events[e].registered_count
                /\ db'.events[e].waitlist_count = db.events[e].waitlist_count]_vars

\* C26: a registration request is refused for a guest's address exactly when
\* some guest address ends, capitals aside, with neither @umd.edu nor
\* @terpmail.umd.edu: the schema and the service accept the same addresses,
\* and a request the service's checks accept, such as one with a
\* terpmail.umd.edu guest on an event with room, succeeds.
C26_GuestDomainsAgree ==
    [][(/\ procs'[MinOf(Procs)].op = "request"
        /\ Len(procs'[MinOf(Procs)].guests) <= MAX_GUESTS) =>
          LET P == procs'[MinOf(Procs)]
              outside == {i \in DOMAIN P.guests :
                            lower(P.guests[i]).domain
                               \notin {"umd.edu", "terpmail.umd.edu"}}
              low == [i \in DOMAIN P.guests |-> lower(P.guests[i])]
          IN  /\ ret'.detail
                    \in {"Guest email must be a valid UMD email address (@umd.edu)",
                         "Guest email must be a valid UMD email"}
                 => outside # {}
              /\ create_registration_checks(db, P.user_id, P.event_id, low)[1] = 200
                 => /\ ret'.status = 200
                    /\ db'.registrations[ret'.id].guests = low]_vars

\* C27: an event update that sets a capacity below the event's
\* registered_count is rejected and leaves the capacity as it was, and no
\* update makes registered_count exceed capacity.
C27_CapacityNotBelowCount ==
    [][ret'.op = "update" =>
          LET P == procs'[MinOf(Procs)]
              e == P.event_id
          IN  e \in DOMAIN db.events =>
                /\ (/\ P.capacity # None
                    /\ P.capacity < db.events[e].registered_count) =>
                      /\ ret'.status # 200
                      /\ db'.events[e].capacity = db.events[e].capacity
                /\ db.events[e].registered_count <= db.events[e].capacity
                      => db'.events[e].registered_count <= db'.events[e].capacity
                /\ db'.events[e].registered_count = db.events[e].registered_count]_vars

\* The owner asked for a capacity below the seats already taken and was
\* refused.
C27_Witness ==
    /\ ret.op = "update"
    /\ ret.status = 400
    /\ procs[MinOf(Procs)].organizer = "owner"
    /\ procs[MinOf(Procs)].capacity # None
    /\ procs[MinOf(Procs)].capacity
          < db.events[ret.event_id].registered_count
    /\ db.events[ret.event_id].status = "published"

\* C28: check_in_attendee only turns not_checked_in into checked_in, for a
\* CONFIRMED registration of the event it is called for: for a cancelled
\* registration, one already checked in or one of another event it is
\* rejected and check_in_status stays; and no operation takes a registration
\* from checked_in back to not_checked_in.
C28_CheckInOneWay ==
    [][/\ \A i \in DOMAIN db.registrations :
             /\ db.registrations[i].check_in_status = "checked_in"
                   => db'.registrations[i].check_in_status = "checked_in"
             /\ db'.registrations[i].check_in_status
                   # db.registrations[i].check_in_status
                   => /\ ret'.op = "check_in"
                      /\ ret'.status = 200
                      /\ procs'[MinOf(Procs)].reg = i
                      /\ db.registrations[i].status = "confirmed"
                      /\ db.registrations[i].event_id = ret'.event_id
       /\ \A i \in (DOMAIN db'.registrations) \ (DOMAIN db.registrations) :
             db'.registrations[i].check_in_status = "not_checked_in"
       /\ ret'.op = "check_in" =>
             LET i == procs'[MinOf(Procs)].reg
             IN  (/\ i \in DOMAIN db.registrations
                  /\ \/ db.registrations[i].status # "confirmed"
                     \/ db.registrations[i].check_in_status = "checked_in"
                     \/ db.registrations[i].event_id # ret'.event_id) =>
                   /\ ret'.status # 200
                   /\ db' = db]_vars

\* The owner tried to check in an attendee whose registration, checked in
\* earlier, has since been cancelled: refused, and it stays checked in.
C28_Witness ==
    /\ ret.op = "check_in"
    /\ ret.status = 400
    /\ procs[MinOf(Procs)].organizer = "owner"
    /\ procs[MinOf(Procs)].reg \in DOMAIN db.registrations
    /\ db.registrations[procs[MinOf(Procs)].reg].status = "cancelled"
    /\ db.registrations[procs[MinOf(Procs)].reg].check_in_status = "checked_in"
    /\ db.registrations[procs[MinOf(Procs)].reg].event_id = ret.event_id

\* C30: registered_count is only changed under the event's row lock: when
\* a registration and a cancellation on the same event have run at the same
\* time and both were served, neither update of the counter is lost and
\* registered_count is the number of seats of the CONFIRMED registrations.
C30_NoLostCounterUpdate ==
    \A p \in Procs : \A q \in Procs \ {p} :
        (/\ procs[p].pc = "done" /\ procs[p].op = "register"
         /\ procs[p].status = 200
         /\ procs[q].pc = "done" /\ procs[q].op = "cancel"
         /\ procs[q].status = 200
         /\ db.registrations[procs[p].id].event_id
               = db.registrations[procs[q].id].event_id) =>
            LET e == db.registrations[procs[p].id].event_id
            IN  db.events[e].registered_count = ConfirmedSeats(e)

\* C31: waitlist_repo.remove deletes the entry and renumbers the entries
\* behind it as one atomic update: once two removals on the same event that
\* ran at the same time (two leaves, or a leave and a promotion) are over,
\* the remaining entries of the event hold the positions 1..n.
C31_RemovalsKeepContiguous ==
    (\A p \in Procs : procs[p].pc \in {"idle", "done"}) =>
        \A e \in DOMAIN db.events :
            {w.position : w \in Rows(e)} = 1..Cardinality(Rows(e))

\* C32: whatever registrations, cancellations, joins, leaves and promotions
\* have been served, a promote_from_waitlist called on its own on a full
\* event included, capacity - registered_count is not negative.
C32_RemainingNeverNegative ==
    \A e \in DOMAIN db.events :
        db.events[e].capacity - db.events[e].registered_count >= 0

C33_PromotionFIFO ==
    [][ret'.op \in {"promote", "cancel", "leave"} =>
          \A a \in db.waitlist :
              /\ \A b \in db.waitlist, a2 \in db'.waitlist, b2 \in db'.waitlist :
                    (a2.id = a.id /\ b2.id = b.id /\ a.event_id = b.event_id)
                        => /\ (a.position < b.position <=> a2.position < b2.position)
                           /\ (a.id < b.id <=> a2.position < b2.position)
              /\ (ret'.op # "leave" /\ \A a2 \in db'.waitlist : a2.id # a.id)
                    => \A b \in db.waitlist :
                          b.event_id = a.event_id
                              => a.position <= b.position /\ a.id <= b.id]_vars

\* A promotion has taken the head of a line in which two users still wait.
C33_Witness ==
    /\ ret.op = "promote"
    /\ ret.promoted
    /\ Cardinality(Rows(ret.event_id)) >= 2

\* C35: a call that fails validation writes no audit record; a served
\* registration, join or leave writes exactly one record, of its kind; a
\* served cancellation writes one cancellation record, followed by one
\* promotion record exactly when it promoted somebody; a promotion called on
\* its own writes one promotion record when it promoted.
C35_OneAuditRecordEach ==
    [][ret'.op # "none" =>
          db'.audit_logs =
              db.audit_logs \o
              (IF ret'.op = "promote"
               THEN (IF ret'.promoted THEN <<"WAITLIST_PROMOTED">> ELSE <<>>)
               ELSE IF ret'.status # 200 THEN <<>>
               ELSE IF ret'.op = "register" THEN <<"REGISTRATION_CREATED">>
               ELSE IF ret'.op = "join" THEN <<"WAITLIST_JOINED">>
               ELSE IF ret'.op = "leave" THEN <<"WAITLIST_LEFT">>
               ELSE <<"REGISTRATION_CANCELLED">> \o
                    (IF Len(db'.registrations) > Len(db.registrations)
                     THEN <<"WAITLIST_PROMOTED">> ELSE <<>>))]_vars

\* A cancellation promoted the head of the line: two records, in that order.
C35_Witness ==
    /\ ret.op = "cancel"
    /\ ret.status = 200
    /\ ret.detail = "promoted"
    /\ db.audit_logs = <<"REGISTRATION_CANCELLED", "WAITLIST_PROMOTED">>

\* C36: releases are floored at zero.  A cancellation leaves registered_count
\* at max(0, registered_count - seats freed), plus one when it promoted; a
\* leave or a dequeue leaves waitlist_count at max(0, waitlist_count - 1);
\* neither counter is negative afterwards, also when the counters understated
\* the stored rows before.
C36_ReleasesFloored ==
    [][ret'.op \in {"cancel", "leave", "promote"} =>
          LET e == ret'.event_id
              grown == Len(db'.registrations) - Len(db.registrations)
              gone == Cardinality(db.waitlist) - Cardinality(db'.waitlist)
              seats == IF ret'.op = "cancel"
                       THEN 1 + Len(db.registrations[ret'.id].guests) ELSE 0
          IN  /\ db'.events[e].registered_count >= 0
              /\ db'.events[e].waitlist_count >= 0
              /\ db'.events[e].registered_count =
                    Max(0, db.events[e].registered_count - seats) + grown
              /\ db'.events[e].waitlist_count =
                    Max(0, db.events[e].waitlist_count - gone)]_vars

\* A cancellation freed more seats than registered_count held and nobody was
\* promoted: the counter is 0.
C36_Witness ==
    /\ ret.op = "cancel"
    /\ ret.detail = "empty"
    /\ Len(db.registrations[ret.id].guests) = 1
    /\ db.events[ret.event_id].registered_count = 0
    /\ Cardinality(Confirmed(ret.event_id)) >= 1

\* The user holds a CONFIRMED registration for the event and waits for it.
RegisteredAndWaiting(d, u, e) ==
    /\ get_by_user_and_event(d, u, e) # None
    /\ waitlist_get_by_user_and_event(d, u, e) # {}

\* C37: no user holds a CONFIRMED registration and a waitlist entry for the
\* same event at the same time.
C37_NeverRegisteredAndWaiting ==
    \A u \in UserIds, e \in EventIds : ~RegisteredAndWaiting(db, u, e)

\* C37, amended: a user comes to hold a CONFIRMED registration and a waitlist
\* entry for the same event only by registering directly while waiting; a
\* join, a leave, a cancellation and a promotion never bring that about.
C37_OnlyDirectRegistrationOverlaps ==
    [][\A u \in UserIds, e \in EventIds :
          (RegisteredAndWaiting(db', u, e) /\ ~RegisteredAndWaiting(db, u, e))
              => /\ ret'.op = "register"
                 /\ ret'.event_id = e
                 /\ db'.registrations[ret'.id].user_id = u
                 /\ waitlist_get_by_user_and_event(db, u, e) # {}]_vars

\* A waiting user has registered directly and is still on the waitlist.
C37_Witness ==
    /\ ret.op = "register"
    /\ RegisteredAndWaiting(db, db.registrations[ret.id].user_id, ret.event_id)

\* C38: a CONFIRMED registration is created only for an event that is
\* published when it is created, by create_registration and by a promotion
\* (on its own or after a cancellation) alike.
C38_CreatedOnlyWhenPublished ==
    [][\A i \in DOMAIN db'.registrations :
          (i \notin DOMAIN db.registrations
           /\ db'.registrations[i].status = "confirmed")
              => db.events[db'.registrations[i].event_id].status = "published"]_vars

\* C39: EventRepository.update, whatever keywords it is given, leaves the
\* event's id, registered_count and waitlist_count as they were (and the
\* registrations and the waitlist with them), and sets the capacity it is given.
C39_UpdateKeepsCounters ==
    [][ret'.op = "update" =>
          /\ DOMAIN db'.events = DOMAIN db.events
          /\ \A e \in DOMAIN db.events :
                /\ db'.events[e].registered_count = db.events[e].registered_count
                /\ db'.events[e].waitlist_count = db.events[e].waitlist_count
          /\ db'.registrations = db.registrations
          /\ db'.waitlist = db.waitlist
          /\ \A p \in Procs :
                procs'[p].capacity # None
                    => db'.events[ret'.event_id].capacity = procs'[p].capacity]_vars

\* An update was given a counter (and a capacity), with a value the counter
\* does not have.
C39_Witness ==
    /\ ret.op = "update"
    /\ \E p \in Procs :
          /\ procs[p].detail = "protected"
          /\ procs[p].capacity = db.events[ret.event_id].capacity
          /\ procs[p].n # db.events[ret.event_id].registered_count
          /\ procs[p].n # db.events[ret.event_id].waitlist_count

====
